---- MODULE Spec2Model ----
(***************************************************************************)
(* A model of the subrepo workspace synchronisation engine:                *)
(* src/subrepo/subtree_manager.py, src/subrepo/git_commands.py,            *)
(* src/subrepo/file_operations.py, src/subrepo/manifest_parser.py and the  *)
(* sync and status commands of src/subrepo/cli.py.                         *)
(*                                                                         *)
(* Text (paths, branch names, revisions, git status lines) is modelled as  *)
(* sequences of one-character strings, so that substring tests, prefixes   *)
(* and replacements are computed as the code computes them.  The external  *)
(* git binary and the filesystem are the environment: each command the     *)
(* code runs is recorded in `log`, and its outcome is chosen by the        *)
(* environment.                                                            *)
(***************************************************************************)
EXTENDS Integers, Sequences, FiniteSets, TLC

VARIABLES
    op,         \* the entry point being executed, "none" before the call
    pc,         \* the position inside that entry point
    args,       \* the arguments of the call
    changes,    \* working tree: the uncommitted changes git status reports
    stash,      \* git stash stack, newest first
    markers,    \* .subrepo/subtrees/<safe_name>.json -> content or NoMarker
    projected,  \* files put in the workspace by copy/link directives
    clock,      \* datetime.now(UTC), in ticks
    idx,        \* the loop index over manifest.projects
    results,    \* the results dictionary under construction
    fileres,    \* SubtreeManager.file_operation_results
    stashed,    \* sync_all_components' local flag
    exc,        \* the exception in flight or raised to the caller
    ret,        \* the returned value / exit code
    log,        \* every external command and file operation, in order
    head,       \* the branch HEAD points to, or Detached
    originHead, \* refs/remotes/origin/HEAD, or NoRef
    remote,     \* branches pushed to the components' remotes
    proc,       \* the CompletedProcess of the last git subtree push
    fscalls,    \* the mutating filesystem calls made by file_operations.py
    statuses,   \* the SubtreeState list a status scan is building
    detail,     \* the message of the exception raised: the violations it names
    temps       \* .subrepo/subtrees/<safe_name>.json.tmp -> content or NoMarker

vars == <<op, pc, args, changes, stash, markers, projected, clock, idx,
          results, fileres, stashed, exc, ret, log, head, originHead, remote,
          proc, fscalls, statuses, detail,
          temps>>

----------------------------------------------------------------------------
(* Bounds of the model *)

MaxComponents == 3
MaxDirectives == 2

----------------------------------------------------------------------------
(* Text helpers: Python str operations on character sequences *)

\* s.startswith(prefix)
StartsWith(s, prefix) ==
    /\ Len(prefix) <= Len(s)
    /\ SubSeq(s, 1, Len(prefix)) = prefix

\* sub in s
Contains(s, sub) ==
    \E i \in 0..(Len(s) - Len(sub)) : SubSeq(s, i + 1, i + Len(sub)) = sub

\* s.replace(a, b) for one-character a and b
ReplaceChar(s, a, b) == [i \in 1..Len(s) |-> IF s[i] = a THEN b ELSE s[i]]

\* the characters of a sequence, set of positions of a function
Range(f) == {f[i] : i \in DOMAIN f}

----------------------------------------------------------------------------
(* The manifest: MaxComponents projects on one remote *)

Letters == <<"a", "b", "c", "d", "e", "f", "g", "h">>

Components == 1..MaxComponents

HexDigits == {"0", "1", "2", "3", "4", "5", "6", "7", "8", "9",
              "a", "b", "c", "d", "e", "f", "A", "B", "C", "D", "E", "F"}

ShaLen == 40

\* SHA_PATTERN = ^[0-9a-fA-F]{40}$ and is_commit_sha: pattern.match anchors
\* at the start, and `$` matches at the end of the text and also just before
\* a newline that ends it
is_commit_sha(revision) ==
    /\ Len(revision) >= ShaLen
    /\ \A i \in 1..ShaLen : revision[i] \in HexDigits
    /\ \/ Len(revision) = ShaLen
       \/ Len(revision) = ShaLen + 1 /\ revision[ShaLen + 1] = "\n"

Main == <<"m", "a", "i", "n">>
Develop == <<"d", "e", "v">>
Feature == <<"f", "e", "a", "t">>
PinnedSha == [i \in 1..ShaLen |-> IF i % 2 = 0 THEN "A" ELSE "1"]
ShortHex == [i \in 1..(ShaLen - 1) |-> "a"]
LongHex == [i \in 1..(ShaLen + 1) |-> "a"]
NonHex40 == [i \in 1..ShaLen |-> IF i = ShaLen THEN "g" ELSE "a"]
ShaNewline == [i \in 1..(ShaLen + 1) |-> IF i > ShaLen THEN "\n" ELSE "b"]

\* the revision attribute of the i-th project, never empty
\* (manifest_parser.py: revision = ... or default_revision or "main")
Revisions == <<Develop, PinnedSha, Main, ShortHex, NonHex40, LongHex, ShaNewline>>

ProjectRevision(i) == Revisions[((i - 1) % Len(Revisions)) + 1]

\* Copyfile / Linkfile directives of the i-th project
ProjectCopyfiles(i) ==
    IF i % 2 = 1
    THEN << [src |-> <<"f">>, dest |-> <<"o", "/", Letters[i]>>] >>
    ELSE <<>>

ProjectLinkfiles(i) ==
    IF i = 1
    THEN << [src |-> <<"d">>, dest |-> <<"k", "/", Letters[i]>>] >>
    ELSE <<>>

\* models.Project
Project(i) ==
    [ name      |-> <<"o", "/", Letters[i]>>,
      path      |-> <<"l", "/", Letters[i]>>,
      remote    |-> "origin",
      revision  |-> ProjectRevision(i),
      copyfiles |-> ProjectCopyfiles(i),
      linkfiles |-> ProjectLinkfiles(i) ]

\* models.Remote
Remotes == [ origin |-> [ name |-> "origin", fetch |-> <<"u", ":">>, push_url |-> <<>> ] ]

\* models.Manifest: remotes and the ordered project list
Manifest == [ remotes |-> Remotes, projects |-> [i \in Components |-> Project(i)] ]

ProjectPaths == {Manifest.projects[i].path : i \in Components}

\* the position in the manifest of a Project object
IndexOf(project) ==
    CHOOSE i \in Components : Manifest.projects[i].path = project.path

\* HEAD without a symbolic ref, refs/remotes/origin/HEAD not set
Detached == <<>>
NoRef == <<>>
OriginPrefix == <<"o", "r", "i", "g", "i", "n", "/">>

----------------------------------------------------------------------------
(* exceptions.py: the exception hierarchy *)

ExcParent ==
    [ SubrepoError            |-> "Exception",
      WorkspaceError          |-> "SubrepoError",
      ManifestError           |-> "SubrepoError",
      GitOperationError       |-> "SubrepoError",
      GitCommandError         |-> "GitOperationError",
      BranchError             |-> "GitOperationError",
      DetachedHeadError       |-> "BranchError",
      PushError               |-> "GitOperationError",
      NonFastForwardError     |-> "PushError",
      BranchProtectionError   |-> "PushError",
      RepositoryNotFoundError |-> "PushError",
      OSError                 |-> "Exception",
      CalledProcessError      |-> "Exception",
      TimeoutExpired          |-> "Exception",
      Exception               |-> "Exception" ]

RECURSIVE IsInstance(_, _)
\* isinstance(e, cls), as an except clause tests it
IsInstance(e, cls) ==
    IF e = cls THEN TRUE
    ELSE IF e = "Exception" \/ e = "none" THEN FALSE
    ELSE IsInstance(ExcParent[e], cls)

----------------------------------------------------------------------------
(* git_commands.py: the command gateway *)

GitOutcomes == {"ok", "fail", "timeout"}

\* run_git_command that does not look at the exit status: every command
\* that ends is reported as a success
run_git_command_ignores_exit(outcome, check) ==
    CASE outcome = "timeout" ->
            [exc |-> "GitCommandError", success |-> FALSE, exit_code |-> -1]
      [] OTHER ->
            [exc |-> "none", success |-> TRUE, exit_code |-> 0]

\* run_git_command: the GitOperationResult, or the exception it raises
run_git_command(outcome, check) ==
    CASE outcome = "timeout" ->
            [exc |-> "GitCommandError", success |-> FALSE, exit_code |-> -1]
      [] outcome = "fail" /\ check ->
            [exc |-> "GitCommandError", success |-> FALSE, exit_code |-> 1]
      [] outcome = "fail" ->
            [exc |-> "none", success |-> FALSE, exit_code |-> 1]
      [] OTHER ->
            [exc |-> "none", success |-> TRUE, exit_code |-> 0]

\* git_subtree_pull: run_git_command with the default check=True
git_subtree_pull(outcome) == run_git_command(outcome, TRUE)

\* one line of `git status --short`: "XY path"
StatusLine(c) == c.code \o <<" ">> \o c.path

\* git_status(short=True): the lines of stdout, by run_git_command(check=True)
git_status(outcome, chg) ==
    [ res   |-> run_git_command(outcome, TRUE),
      lines |-> {StatusLine(c) : c \in chg} ]

----------------------------------------------------------------------------
(* The workspace the commands act on *)

Tracked == <<" ", "M">>
Untracked == <<"?", "?">>

\* the uncommitted changes a workspace may hold: a modified file inside the
\* first component, an untracked file at the workspace root, and an
\* untracked file in a directory whose path ends like the first component's
ChangePaths ==
    { [code |-> Tracked,   path |-> Project(1).path \o <<"/", "f">>],
      [code |-> Untracked, path |-> <<"r">>],
      [code |-> Untracked, path |-> <<"x", "/">> \o Project(1).path \o <<"/", "g">>] }

\* git stash push (without -u) takes the tracked modifications only
StashPush(chg) == {c \in chg : c.code = Tracked}

NoMarker == [project_name |-> <<>>, project_path |-> <<>>,
             last_sync_time |-> -1, status |-> "absent"]

\* a file opened for writing whose text is not all written yet
PartialMarker == [NoMarker EXCEPT !.status = "partial"]

\* safe_name = project.path.replace("/", "_").replace("\\", "_"), plus ".json"
safe_name(path) ==
    ReplaceChar(ReplaceChar(path, "/", "_"), "\\", "_") \o <<".", "j", "s", "o", "n">>

MarkerFiles == {safe_name(p) : p \in ProjectPaths}

\* a marker left by an earlier sync, at time 0
OldMarker(p) == [project_name |-> p.name, project_path |-> p.path,
                 last_sync_time |-> 0, status |-> "up-to-date"]

Event(e, c, n, ok) == [ev |-> e, comp |-> c, n |-> n, ok |-> ok]

----------------------------------------------------------------------------
(* file_operations.py: copy and link directives *)

\* what the filesystem does to one copy directive / one link directive:
\* escapes_root = the destination resolves outside the workspace root,
\* src_outside = the source resolves outside it (a symlink in the component)
CopyEnv == {"ok", "escapes_root", "src_outside", "src_missing", "mkdir_error",
            "copy_error"}
LinkEnv == {"ok", "escapes_root", "src_outside", "mkdir_error", "fallback_ok",
            "fallback_error"}

\* project_dir / src
Join(dir, rel) == dir \o <<"/">> \o rel

\* validate_path_security with the textual tests only, the destination
\* never resolved
validate_path_security_lexical(src_path, dest_path, escapes) ==
    IF Contains(src_path, <<".", ".">>) \/ Contains(dest_path, <<".", ".">>)
    THEN "PathSecurityError"
    ELSE IF StartsWith(src_path, <<"/">>) \/ StartsWith(dest_path, <<"/">>)
    THEN "PathSecurityError"
    ELSE "none"

\* validate_path_security: the exception raised, "none" when the paths pass;
\* escapes = the destination resolves outside the workspace root
validate_path_security(src_path, dest_path, escapes) ==
    IF Contains(src_path, <<".", ".">>) \/ Contains(dest_path, <<".", ".">>)
    THEN "PathSecurityError"
    ELSE IF StartsWith(src_path, <<"/">>) \/ StartsWith(dest_path, <<"/">>)
    THEN "PathSecurityError"
    ELSE IF escapes THEN "PathSecurityError"
    ELSE "none"

\* one mutating call on the filesystem
FsCall(call, path, ok) == [call |-> call, path |-> path, ok |-> ok]

\* copy_file: the exception raised ("none" when the file was copied) and
\* the mutating calls made
copy_file(e, dest) ==
    CASE e = "src_missing" ->
            [exc |-> "FileOperationError", calls |-> <<>>]
      [] e = "mkdir_error" ->
            [exc |-> "OSError", calls |-> <<FsCall("mkdir", dest, FALSE)>>]
      [] e = "copy_error"  ->
            [exc |-> "FileOperationError",
             calls |-> <<FsCall("mkdir", dest, TRUE), FsCall("copy2", dest, FALSE)>>]
      [] OTHER             ->
            [exc |-> "none",
             calls |-> <<FsCall("mkdir", dest, TRUE), FsCall("copy2", dest, TRUE)>>]

\* create_symlink without the copy fallback: a failed symlink_to is an error
create_symlink_no_fallback(e, target, dest, landed) ==
    CASE e = "mkdir_error" ->
            [exc |-> "OSError", fallback_used |-> FALSE,
             calls |-> <<FsCall("mkdir", dest, FALSE)>>]
      [] e \in {"fallback_ok", "fallback_error"} \/ landed # {} ->
            [exc |-> "FileOperationError", fallback_used |-> FALSE,
             calls |-> <<FsCall("mkdir", dest, TRUE),
                         FsCall("symlink_to", dest, FALSE)>>]
      [] OTHER ->
            [exc |-> "none", fallback_used |-> FALSE,
             calls |-> <<FsCall("mkdir", dest, TRUE),
                         FsCall("symlink_to", dest, TRUE)>>]

\* create_symlink: [exc, fallback_used, calls]. landed = what is at the link
\* path already: symlink_to raises FileExistsError over anything, copytree
\* over anything, copy2 (which follows symlinks) raises SameFileError over a
\* symlink to the target itself and overwrites any other file. A target
\* whose last part is "d" is a directory of the component.
create_symlink(e, target, dest, landed) ==
    CASE e = "mkdir_error" ->
            [exc |-> "OSError", fallback_used |-> FALSE,
             calls |-> <<FsCall("mkdir", dest, FALSE)>>]
      [] e \notin {"fallback_ok", "fallback_error"} /\ landed = {} ->
            [exc |-> "none", fallback_used |-> FALSE,
             calls |-> <<FsCall("mkdir", dest, TRUE),
                         FsCall("symlink_to", dest, TRUE)>>]
      [] OTHER ->
            LET copied == /\ e # "fallback_error"
                          /\ IF target[Len(target)] = "d"
                             THEN landed = {}
                             ELSE \A f \in landed :
                                     f.kind = "symlink" => f.src # target
            IN  [exc |-> IF copied THEN "none" ELSE "FileOperationError",
                 fallback_used |-> copied,
                 calls |-> <<FsCall("mkdir", dest, TRUE),
                             FsCall("symlink_to", dest, FALSE),
                             FsCall("copy", dest, copied)>>]

\* models.FileOperationResult
FileResult(p, type, d, success, fallback) ==
    [ project_name |-> p.name, operation_type |-> type, src |-> d.src,
      dest |-> d.dest, success |-> success, fallback_used |-> fallback ]

\* the file at dest is created or overwritten
Place(files, f) == {g \in files : g.dest # f.dest} \cup {f}

\* the body of the loop of execute_copyfile_operations, for directive k;
\* st.acc is the local `results` list, st.exc an exception that escapes
copy_one(p, k, e, st) ==
    LET d      == p.copyfiles[k]
        sec    == validate_path_security(d.src, d.dest, e = "escapes_root")
        copied == copy_file(e, d.dest)
        raised == IF sec = "none" THEN copied.exc ELSE sec
        caught == raised \in {"PathSecurityError", "FileOperationError"}
        done   == raised = "none"
    IN  [ st EXCEPT
            !.projected = IF done
                          THEN Place(@, [dest |-> d.dest, kind |-> "copy",
                                         src |-> Join(p.path, d.src)])
                          ELSE @,
            !.log = Append(@, Event("copy", IndexOf(p), k, done)),
            !.fscalls = IF sec = "none" THEN @ \o copied.calls ELSE @,
            !.acc = IF done \/ caught
                    THEN Append(@, FileResult(p, "copyfile", d, done, FALSE))
                    ELSE @,
            !.exc = IF done \/ caught THEN "none" ELSE raised ]

\* the body of the loop of execute_linkfile_operations, for directive k
link_one(p, k, e, st) ==
    LET d      == p.linkfiles[k]
        sec    == validate_path_security(d.src, d.dest, e = "escapes_root")
        made   == create_symlink(e, Join(p.path, d.src), d.dest,
                                 {f \in st.projected : f.dest = d.dest})
        raised == IF sec = "none" THEN made.exc ELSE sec
        caught == raised \in {"PathSecurityError", "FileOperationError"}
        done   == raised = "none"
    IN  [ st EXCEPT
            !.projected = IF done
                          THEN Place(@, [dest |-> d.dest,
                                         kind |-> IF made.fallback_used
                                                  THEN "fallback" ELSE "symlink",
                                         src |-> Join(p.path, d.src)])
                          ELSE @,
            !.log = Append(@, Event("link", IndexOf(p), k, done)),
            !.fscalls = IF sec = "none" THEN @ \o made.calls ELSE @,
            !.acc = IF done \/ caught
                    THEN Append(@, FileResult(p, "linkfile", d, done,
                                              done /\ made.fallback_used))
                    ELSE @,
            !.exc = IF done \/ caught THEN "none" ELSE raised ]

RECURSIVE copy_loop(_, _, _, _)
copy_loop(p, k, env, st) ==
    IF k > Len(p.copyfiles) \/ st.exc # "none" THEN st
    ELSE copy_loop(p, k + 1, env, copy_one(p, k, env[k], st))

RECURSIVE link_loop(_, _, _, _)
link_loop(p, k, env, st) ==
    IF k > Len(p.linkfiles) \/ st.exc # "none" THEN st
    ELSE link_loop(p, k + 1, env, link_one(p, k, env[k], st))

\* execute_copyfile_operations: every directive in order; st.acc is returned
execute_copyfile_operations(p, env, st) ==
    copy_loop(p, 1, env, [st EXCEPT !.acc = <<>>])

\* execute_linkfile_operations: every directive in order; st.acc is returned
execute_linkfile_operations(p, env, st) ==
    link_loop(p, 1, env, [st EXCEPT !.acc = <<>>])

----------------------------------------------------------------------------
(* subtree_manager.py: SubtreeManager *)

SaveEnv == {"ok", "oserror"}

\* _save_subtree_state: the marker is written to a temporary file that is
\* renamed over the final file; a failed write or rename raises OSError and
\* leaves the final file as it was
save_subtree_state(i, e, st) ==
    LET p == Manifest.projects[i]
        state_dict == [ project_name   |-> p.name,
                        project_path   |-> p.path,
                        last_sync_time |-> st.clock,
                        status         |-> "up-to-date" ]
    IN  IF e = "ok"
        THEN [ st EXCEPT
                 !.markers = [@ EXCEPT ![safe_name(p.path)] = state_dict],
                 !.clock = @ + 1,
                 !.log = Append(@, Event("marker", i, 0, TRUE)) ]
        ELSE [ st EXCEPT
                 !.clock = @ + 1,
                 !.log = Append(@, Event("marker", i, 0, FALSE)),
                 !.exc = "OSError" ]

\* the environment of one _sync_component / pull_component call
SyncEnv(i) ==
    [ pull : GitOutcomes,
      save : SaveEnv,
      copy : [1..Len(Manifest.projects[i].copyfiles) -> CopyEnv],
      link : [1..Len(Manifest.projects[i].linkfiles) -> LinkEnv] ]

\* self.file_operation_results.extend(...) of the list an execute_* call
\* returned; nothing is extended when the call raised
extend_results(st) ==
    IF st.exc = "none" THEN [st EXCEPT !.fileres = @ \o st.acc] ELSE st

\* lines 161-169: `if project.copyfiles:` execute them and extend
copy_stage(i, env, st) ==
    IF st.exc = "none" /\ Len(Manifest.projects[i].copyfiles) > 0
    THEN extend_results(execute_copyfile_operations(Manifest.projects[i], env.copy, st))
    ELSE st

\* lines 171-178: `if project.linkfiles:` execute them and extend
link_stage(i, env, st) ==
    IF st.exc = "none" /\ Len(Manifest.projects[i].linkfiles) > 0
    THEN extend_results(execute_linkfile_operations(Manifest.projects[i], env.link, st))
    ELSE st

\* after_pull with the directives deferred to the end of the batch: only the
\* marker is written after the pull
after_pull_marker_only(i, env, st) == save_subtree_state(i, env.save, st)

\* the `if result.success:` part of _sync_component: marker, then copyfile
\* operations, then linkfile operations
after_pull(i, env, st) ==
    link_stage(i, env, copy_stage(i, env, save_subtree_state(i, env.save, st)))

\* _sync_component: git subtree pull, then after_pull when it succeeded;
\* st.exc is the exception raised, st.result the GitOperationResult returned
sync_component(i, env, st) ==
    LET result == git_subtree_pull(env.pull)
        s0 == [ st EXCEPT
                  !.log = Append(@, Event("pull", i, 0, env.pull = "ok")),
                  !.exc = result.exc,
                  !.result = result ]
    IN  IF s0.exc = "none" /\ result.success THEN after_pull(i, env, s0) ELSE s0

----------------------------------------------------------------------------
(* The state the operators above thread through one call *)

NoResult == [exc |-> "none", success |-> FALSE, exit_code |-> 0]

NoArgs == [force |-> FALSE, continue_on_error |-> FALSE, dry_run |-> FALSE,
           project |-> 0, env |-> <<>>]

NoResults == [q \in {} |-> NoResult]

\* no git subtree push has run
NoProc == [code |-> 0, stderr |-> <<>>, timeout |-> FALSE]

\* nothing returned (yet); a return value is [kind |-> ..., ...]
NoRet == [kind |-> "none"]

St == [ markers |-> markers, projected |-> projected, clock |-> clock,
        log |-> log, fileres |-> fileres, fscalls |-> fscalls, acc |-> <<>>,
        exc |-> "none", result |-> NoResult ]

\* the workspace before a command runs, its uncommitted changes aside:
\* markers of an earlier sync or none, nothing projected yet
WorkspaceIdle ==
    /\ op = "none"
    /\ pc = "idle"
    /\ args = NoArgs
    /\ stash = <<>>
    /\ markers \in { [f \in MarkerFiles |-> NoMarker],
                     [f \in MarkerFiles |->
                        OldMarker(CHOOSE p \in Range(Manifest.projects) :
                                    safe_name(p.path) = f)] }
    /\ projected = {}
    /\ clock = 1
    /\ idx = 0
    /\ results = NoResults
    /\ fileres = <<>>
    /\ stashed = FALSE
    /\ exc = "none"
    /\ ret = NoRet
    /\ log = <<>>
    /\ remote = {}
    /\ temps = [f \in MarkerFiles |-> NoMarker]
    /\ detail = <<>>
    /\ statuses = <<>>
    /\ fscalls = <<>>
    /\ proc = NoProc

\* the workspace before a command runs: some uncommitted changes
WorkspaceInit ==
    /\ WorkspaceIdle
    /\ changes \in SUBSET ChangePaths

----------------------------------------------------------------------------
(* SubtreeManager.sync_all_components *)

\* batch_step with the `if not continue_on_error: raise` of the except
\* clause lost: a GitOperationError is always stored and the loop goes on
batch_step_never_raises(continue_on_error, r) ==
    IF r.exc = "none"
    THEN [raise |-> "none", store |-> "result"]
    ELSE IF IsInstance(r.exc, "GitOperationError")
    THEN [raise |-> "none", store |-> "error"]
    ELSE [raise |-> r.exc, store |-> "nothing"]

\* batch_step with continue_on_error ignored: a GitOperationError always
\* ends the batch
batch_step_always_raises(continue_on_error, r) ==
    IF r.exc = "none"
    THEN IF ~r.result.success
         THEN [raise |-> "GitOperationError", store |-> "result"]
         ELSE [raise |-> "none", store |-> "result"]
    ELSE [raise |-> r.exc, store |-> "nothing"]

\* one iteration of `for project in self.manifest.projects` around the call
\* r of _sync_component: what is stored in results and what is raised
\*   try: results[path] = result; raise GitOperationError if it failed and
\*        not continue_on_error
\*   except GitOperationError: re-raise unless continue_on_error, else store
\*        an error result
batch_step(continue_on_error, r) ==
    IF r.exc = "none"
    THEN IF ~r.result.success /\ ~continue_on_error
         THEN [raise |-> "GitOperationError", store |-> "result"]
         ELSE [raise |-> "none", store |-> "result"]
    ELSE IF IsInstance(r.exc, "GitOperationError")
    THEN IF ~continue_on_error
         THEN [raise |-> r.exc, store |-> "nothing"]
         ELSE [raise |-> "none", store |-> "error"]
    ELSE [raise |-> r.exc, store |-> "nothing"]

\* the GitOperationResult stored for a caught GitOperationError
ErrorResult == [success |-> FALSE, exit_code |-> 1]

Stored(r) == [success |-> r.result.success, exit_code |-> r.result.exit_code]

CallSyncAll ==
    /\ pc = "idle"
    /\ \E force \in BOOLEAN, coe \in BOOLEAN :
         args' = [NoArgs EXCEPT !.force = force, !.continue_on_error = coe]
    /\ op' = "sync_all_components"
    /\ pc' = "check"
    /\ UNCHANGED <<changes, stash, markers, projected, clock, idx, results,
                   fileres, stashed, exc, ret, log, head, originHead, remote,
                   proc, fscalls, statuses, detail,
                   temps>>

\* precheck without the refusal: a dirty workspace is synced as a clean one
precheck_never_refuses(force, dirty) ==
    IF force /\ dirty THEN "stash" ELSE "proceed"

\* lines 74-90: what the call does once git status has answered:
\* refuse (WorkspaceError), stash the changes, or go on to the loop
precheck(force, dirty) ==
    IF ~force /\ dirty THEN "refuse"
    ELSE IF force /\ dirty THEN "stash"
    ELSE "proceed"

\* lines 74-97: the uncommitted-changes check, or the stash in force mode
SyncAllCheck ==
    /\ op = "sync_all_components" /\ pc = "check"
    /\ \E so \in GitOutcomes, po \in {"ok", "fail"} :
       \E status \in {git_status(so, changes)} :
       \E todo \in {precheck(args.force, status.lines # {})} :
       \E log1 \in {Append(log, Event("status", 0, 0, so = "ok"))} :
       \E saved \in {StashPush(changes)} :
         IF status.res.exc # "none"
         THEN /\ exc' = status.res.exc
              /\ pc' = "raised"
              /\ log' = log1
              /\ UNCHANGED <<changes, stash, stashed, idx>>
         ELSE IF todo = "refuse"
         THEN /\ exc' = "WorkspaceError"
              /\ pc' = "raised"
              /\ log' = log1
              /\ UNCHANGED <<changes, stash, stashed, idx>>
         ELSE IF todo = "stash"
         THEN /\ log' = Append(log1, Event("stash_push", 0, 0, po = "ok"))
              /\ IF po = "ok"
                 THEN /\ stashed' = TRUE
                      /\ stash' = IF saved = {} THEN stash
                                  ELSE <<saved>> \o stash
                      /\ changes' = changes \ saved
                      /\ pc' = "loop"
                      /\ idx' = 1
                      /\ exc' = "none"
                 ELSE /\ exc' = "CalledProcessError"
                      /\ pc' = "raised"
                      /\ UNCHANGED <<changes, stash, stashed, idx>>
         ELSE /\ log' = log1
              /\ pc' = "loop"
              /\ idx' = 1
              /\ exc' = "none"
              /\ UNCHANGED <<changes, stash, stashed>>
    /\ UNCHANGED <<op, args, markers, projected, clock, results, fileres, ret,
                   head, originHead, remote,
                   proc, fscalls, statuses, detail,
                   temps>>

\* lines 101-121: one project of the loop
SyncAllLoop ==
    /\ op = "sync_all_components" /\ pc = "loop"
    /\ \E env \in SyncEnv(idx) :
       \E r \in {sync_component(idx, env, St)} :
       \E b \in {batch_step(args.continue_on_error, r)} :
       \E path \in {Manifest.projects[idx].path} :
             /\ markers' = r.markers
             /\ projected' = r.projected
             /\ clock' = r.clock
             /\ log' = r.log
             /\ fileres' = r.fileres
             /\ fscalls' = r.fscalls
             /\ results' = CASE b.store = "result" -> (path :> Stored(r)) @@ results
                             [] b.store = "error"  -> (path :> ErrorResult) @@ results
                             [] OTHER              -> results
             /\ exc' = b.raise
             /\ IF b.raise = "none" /\ idx < Len(Manifest.projects)
                THEN /\ idx' = idx + 1
                     /\ pc' = "loop"
                ELSE /\ idx' = idx
                     /\ pc' = "finally"
    /\ UNCHANGED <<op, args, changes, stash, stashed, ret, head, originHead,
                   remote,
                   proc, statuses, detail,
                   temps>>

\* the stash pop placed after the loop instead of in a finally block: it is
\* skipped when an exception is in flight
restore_due_on_success(was_stashed, e) == was_stashed /\ e = "none"

\* lines 123-131: the finally block pops the stash if one was pushed,
\* whatever exception e is in flight
restore_due(was_stashed, e) == was_stashed

\* lines 123-133: the finally block, then the return or the raise
SyncAllFinally ==
    /\ op = "sync_all_components" /\ pc = "finally"
    /\ IF restore_due(stashed, exc)
       THEN \E pop \in {"ok", "conflict"} :
              /\ log' = Append(log, Event("stash_pop", 0, 0,
                                          pop = "ok" /\ stash # <<>>))
              /\ IF pop = "ok" /\ stash # <<>>
                 THEN /\ changes' = changes \cup Head(stash)
                      /\ stash' = Tail(stash)
                 ELSE UNCHANGED <<changes, stash>>
       ELSE UNCHANGED <<log, changes, stash>>
    /\ pc' = IF exc = "none" THEN "returned" ELSE "raised"
    /\ ret' = IF exc = "none" THEN [kind |-> "results"] ELSE NoRet
    /\ UNCHANGED <<op, args, markers, projected, clock, idx, results, fileres,
                   stashed, exc, head, originHead, remote,
                   proc, fscalls, statuses, detail,
                   temps>>

----------------------------------------------------------------------------
(* SubtreeManager.pull_component *)

\* mentions_component comparing the reported file name with the component
\* path for equality instead of looking for the path in the line
mentions_component_exact(path, lines) ==
    \E line \in lines : SubSeq(line, 4, Len(line)) = path

\* lines 545-546: some line of git status mentions the component:
\* `line.strip() and project.path in line`
mentions_component(path, lines) ==
    \E line \in lines : Len(line) > 0 /\ Contains(line, path)

CallPullComponent ==
    /\ pc = "idle"
    /\ \E i \in Components : args' = [NoArgs EXCEPT !.project = i]
    /\ op' = "pull_component"
    /\ pc' = "body"
    /\ UNCHANGED <<changes, stash, markers, projected, clock, idx, results,
                   fileres, stashed, exc, ret, log, head, originHead, remote,
                   proc, fscalls, statuses, detail,
                   temps>>

\* lines 542-570: status check, subtree pull, marker on success
PullComponent ==
    /\ op = "pull_component" /\ pc = "body"
    /\ \E so \in GitOutcomes, po \in GitOutcomes, se \in SaveEnv :
       \E status \in {git_status(so, changes)} :
       \E result \in {git_subtree_pull(po)} :
       \E log1 \in {Append(log, Event("status", 0, 0, so = "ok"))} :
       \E log2 \in {Append(log1, Event("pull", args.project, 0, po = "ok"))} :
       \E path \in {Manifest.projects[args.project].path} :
         IF status.res.exc # "none"
         THEN /\ exc' = status.res.exc
              /\ pc' = "raised"
              /\ log' = log1
              /\ UNCHANGED <<markers, clock, results, ret>>
         ELSE IF status.res.success /\ mentions_component(path, status.lines)
         THEN /\ exc' = "WorkspaceError"
              /\ pc' = "raised"
              /\ log' = log1
              /\ UNCHANGED <<markers, clock, results, ret>>
         ELSE IF result.exc # "none"
         THEN /\ exc' = result.exc
              /\ pc' = "raised"
              /\ log' = log2
              /\ UNCHANGED <<markers, clock, results, ret>>
         ELSE IF ~result.success
         THEN /\ exc' = "none"
              /\ pc' = "returned"
              /\ log' = log2
              /\ results' = (path :> [success |-> FALSE,
                                      exit_code |-> result.exit_code]) @@ results
              /\ ret' = [kind |-> "result"]
              /\ UNCHANGED <<markers, clock>>
         ELSE \E s \in {save_subtree_state(args.project, se,
                                           [St EXCEPT !.log = log2])} :
              /\ markers' = s.markers
              /\ clock' = s.clock
              /\ log' = s.log
              /\ exc' = s.exc
              /\ pc' = IF s.exc = "none" THEN "returned" ELSE "raised"
              /\ results' = IF s.exc = "none"
                            THEN (path :> [success |-> TRUE, exit_code |-> 0])
                                 @@ results
                            ELSE results
              /\ ret' = IF s.exc = "none" THEN [kind |-> "result"] ELSE NoRet
    /\ UNCHANGED <<op, args, changes, stash, projected, idx, fileres, stashed,
                   head, originHead, remote,
                   proc, fscalls, statuses, detail,
                   temps>>

----------------------------------------------------------------------------
(* cli.py: sync_command *)

\* what `subrepo sync` finds on disk before it starts
CliEnv == {"ok", "not_a_workspace", "no_manifest", "manifest_error"}

\* the --component argument: none, a component path, a component name,
\* a name that is not in the manifest
ComponentArgs == {<<>>, Project(1).path, Project(MaxComponents).name, <<"z">>}

\* Manifest.get_project_by_path / get_project_by_name: index of the first
\* match, 0 for None
get_project_by_path(path) ==
    IF \E i \in Components : Manifest.projects[i].path = path
    THEN CHOOSE i \in Components :
           /\ Manifest.projects[i].path = path
           /\ \A j \in 1..(i - 1) : Manifest.projects[j].path # path
    ELSE 0

get_project_by_name(name) ==
    IF \E i \in Components : Manifest.projects[i].name = name
    THEN CHOOSE i \in Components :
           /\ Manifest.projects[i].name = name
           /\ \A j \in 1..(i - 1) : Manifest.projects[j].name # name
    ELSE 0

\* lines 309-312: by path, else by name
find_component(c) ==
    IF get_project_by_path(c) # 0 THEN get_project_by_path(c)
    ELSE get_project_by_name(c)

\* lines 307-317: components_to_sync, as project indices
components_to_sync(c) ==
    IF c = <<>> THEN [i \in Components |-> i] ELSE <<find_component(c)>>

\* lines 327-364 and 388-397: the handling of one _sync_component call r in
\* sync_command: the exit code returned at once (-1 for none) and the entry
\* stored in results
command_step(force, continue_on_error, r) ==
    IF r.exc = "none"
    THEN IF r.result.success
         THEN [exit |-> -1, store |-> "success"]
         ELSE IF ~continue_on_error
              THEN [exit |-> 2, store |-> "nothing"]
              ELSE [exit |-> -1, store |-> "failed"]
    ELSE IF IsInstance(r.exc, "WorkspaceError")
    THEN [exit |-> 1, store |-> "nothing"]
    ELSE IF IsInstance(r.exc, "GitOperationError")
    THEN IF ~continue_on_error
         THEN [exit |-> 2, store |-> "nothing"]
         ELSE [exit |-> -1, store |-> "failed"]
    ELSE IF IsInstance(r.exc, "SubrepoError")
    THEN [exit |-> 1, store |-> "nothing"]
    ELSE [exit |-> 2, store |-> "nothing"]

\* line 386: 0 if failed_count == 0 else 2
final_exit_code(res) ==
    IF \E q \in DOMAIN res : ~res[q].success THEN 2 ELSE 0

CallSyncCommand ==
    /\ pc = "idle"
    /\ \E force \in BOOLEAN, coe \in BOOLEAN, c \in ComponentArgs :
         args' = [force |-> force, continue_on_error |-> coe,
                  dry_run |-> FALSE, project |-> c]
    /\ op' = "sync_command"
    /\ pc' = "start"
    /\ UNCHANGED <<changes, stash, markers, projected, clock, idx, results,
                   fileres, stashed, exc, ret, log, head, originHead, remote,
                   proc, fscalls, statuses, detail,
                   temps>>

\* lines 285-320: workspace and manifest are loaded, the component is found
SyncCommandStart ==
    /\ op = "sync_command" /\ pc = "start"
    /\ \E e \in CliEnv :
         IF e # "ok"
         THEN /\ pc' = "exited"
              /\ ret' = [kind |-> "exit", code |-> 1]
              /\ idx' = idx
         ELSE IF args.project # <<>> /\ find_component(args.project) = 0
         THEN /\ pc' = "exited"
              /\ ret' = [kind |-> "exit", code |-> 1]
              /\ idx' = idx
         ELSE /\ pc' = "loop"
              /\ idx' = 1
              /\ ret' = ret
    /\ UNCHANGED <<op, args, changes, stash, markers, projected, clock,
                   results, fileres, stashed, exc, log, head, originHead,
                   remote,
                   proc, fscalls, statuses, detail,
                   temps>>

\* lines 323-386: one component of the loop, and the exit after the last
SyncCommandLoop ==
    /\ op = "sync_command" /\ pc = "loop"
    /\ \E i \in {components_to_sync(args.project)[idx]} :
       \E env \in SyncEnv(i) :
       \E r \in {sync_component(i, env, St)} :
       \E c \in {command_step(args.force, args.continue_on_error, r)} :
       \E res \in {CASE c.store = "success" ->
                        (Manifest.projects[i].path :>
                           [success |-> TRUE, exit_code |-> 0]) @@ results
                     [] c.store = "failed" ->
                        (Manifest.projects[i].path :> ErrorResult) @@ results
                     [] OTHER -> results} :
         /\ markers' = r.markers
         /\ projected' = r.projected
         /\ clock' = r.clock
         /\ log' = r.log
         /\ fileres' = r.fileres
         /\ fscalls' = r.fscalls
         /\ results' = res
         /\ exc' = r.exc
         /\ IF c.exit # -1
            THEN /\ pc' = "exited"
                 /\ ret' = [kind |-> "exit", code |-> c.exit]
                 /\ idx' = idx
            ELSE IF idx < Len(components_to_sync(args.project))
            THEN /\ pc' = "loop"
                 /\ ret' = ret
                 /\ idx' = idx + 1
            ELSE /\ pc' = "exited"
                 /\ ret' = [kind |-> "exit", code |-> final_exit_code(res)]
                 /\ idx' = idx
    /\ UNCHANGED <<op, args, changes, stash, stashed, head, originHead,
                   remote,
                   proc, statuses, detail,
                   temps>>

----------------------------------------------------------------------------

SyncInit ==
    /\ WorkspaceInit
    /\ head = Main
    /\ originHead = OriginPrefix \o Main

SyncNext ==
    \/ CallSyncAll
    \/ SyncAllCheck
    \/ SyncAllLoop
    \/ SyncAllFinally
    \/ CallPullComponent
    \/ PullComponent
    \/ CallSyncCommand
    \/ SyncCommandStart
    \/ SyncCommandLoop

SpecSync == SyncInit /\ [][SyncNext]_vars

----------------------------------------------------------------------------
(* git_commands.py: branch detection and git subtree push *)

UpperCase == <<"A", "B", "C", "D", "E", "F", "G", "H", "I", "J", "K", "L", "M",
               "N", "O", "P", "Q", "R", "S", "T", "U", "V", "W", "X", "Y", "Z">>
LowerCase == <<"a", "b", "c", "d", "e", "f", "g", "h", "i", "j", "k", "l", "m",
               "n", "o", "p", "q", "r", "s", "t", "u", "v", "w", "x", "y", "z">>

\* str.lower()
Lower(s) ==
    [i \in 1..Len(s) |->
        IF \E k \in DOMAIN UpperCase : UpperCase[k] = s[i]
        THEN LowerCase[CHOOSE k \in DOMAIN UpperCase : UpperCase[k] = s[i]]
        ELSE s[i]]

\* detect_current_branch asking `git rev-parse --abbrev-ref HEAD`, which
\* answers "HEAD" for a detached HEAD instead of failing
detect_current_branch_rev_parse(h) ==
    IF h = Detached
    THEN [exc |-> "none", branch |-> <<"H", "E", "A", "D">>]
    ELSE [exc |-> "none", branch |-> h]

\* detect_current_branch: the branch name, or DetachedHeadError when
\* git symbolic-ref --short HEAD exits non-zero
detect_current_branch(h) ==
    IF h = Detached
    THEN [exc |-> "DetachedHeadError", branch |-> <<>>]
    ELSE [exc |-> "none", branch |-> h]

\* detect_default_branch: origin/HEAD without its "origin/" prefix, "main"
\* when the ref cannot be read
detect_default_branch(o) ==
    IF o = NoRef THEN Main
    ELSE IF StartsWith(o, OriginPrefix)
         THEN SubSeq(o, Len(OriginPrefix) + 1, Len(o))
         ELSE o

\* a BranchInfo.__post_init__ without its consistency check
BranchInfoValid_unchecked(b) ==
    /\ b.current_branch # <<>>
    /\ b.default_branch # <<>>
    /\ b.target_branch # <<>>

\* BranchInfo.__post_init__: the ValueError cases
BranchInfoValid(b) ==
    /\ b.current_branch # <<>>
    /\ b.default_branch # <<>>
    /\ b.target_branch # <<>>
    /\ b.is_default_branch => b.current_branch = b.default_branch

BranchInfo(current, default) ==
    [ current_branch    |-> current,
      is_default_branch |-> current = default,
      default_branch    |-> default,
      target_branch     |-> IF current = default THEN default ELSE current ]

\* create_branch_info: [exc, info]
create_branch_info(h, o) ==
    IF detect_current_branch(h).exc # "none"
    THEN [exc |-> detect_current_branch(h).exc, info |-> BranchInfo(<<>>, <<>>)]
    ELSE IF ~BranchInfoValid(BranchInfo(detect_current_branch(h).branch,
                                        detect_default_branch(o)))
    THEN [exc |-> "ValueError", info |-> BranchInfo(<<>>, <<>>)]
    ELSE [exc |-> "none",
          info |-> BranchInfo(detect_current_branch(h).branch,
                              detect_default_branch(o))]

\* manifest_parser.extract_default_branch_from_project; <<>> stands for None
extract_default_branch_from_project(project) ==
    IF is_commit_sha(project.revision) THEN <<>> ELSE project.revision

\* determine_target_branch
determine_target_branch(branch_info, project) ==
    IF branch_info.is_default_branch
    THEN IF extract_default_branch_from_project(project) # <<>>
         THEN extract_default_branch_from_project(project)
         ELSE branch_info.default_branch
    ELSE branch_info.current_branch

\* what git subtree push wrote on stderr
ErrNewBranch == <<" ", "*", " ", "[", "n", "e", "w", " ", "b", "r", "a", "n", "c", "h", "]", " ", "x">>
ErrNone == <<>>
ErrProtected == <<"P", "r", "o", "t", "e", "c", "t", "e", "d", " ", "b", "r", "a", "n", "c", "h", " ", "h", "o", "o", "k", " ", "d", "e", "c", "l", "i", "n", "e", "d">>
ErrPermission == <<"P", "e", "r", "m", "i", "s", "s", "i", "o", "n", " ", "d", "e", "n", "i", "e", "d">>
ErrNotFound == <<"R", "e", "p", "o", "s", "i", "t", "o", "r", "y", " ", "n", "o", "t", " ", "f", "o", "u", "n", "d">>
ErrNonFF == <<"n", "o", "n", "-", "f", "a", "s", "t", "-", "f", "o", "r", "w", "a", "r", "d">>
ErrRejected == <<" ", "!", " ", "[", "r", "e", "j", "e", "c", "t", "e", "d", "]", " ", "x">>
ErrRejectedProtected == <<"[", "r", "e", "j", "e", "c", "t", "e", "d", "]", " ", "p", "r", "o", "t", "e", "c", "t", "e", "d", " ", "b", "r", "a", "n", "c", "h">>
ErrOther == <<"f", "a", "t", "a", "l">>
ErrNonFFUpper == <<"N", "o", "n", "-", "F", "a", "s", "t", "-", "F", "o", "r", "w", "a", "r", "d">>

Stderrs == {ErrNewBranch, ErrNone, ErrProtected, ErrPermission, ErrNotFound,
            ErrNonFF, ErrRejected, ErrRejectedProtected, ErrOther,
            ErrNonFFUpper}

\* the ways git subtree push can end: exit status and stderr, or no end
\* within the 600 s timeout
PushEnv == [code : {0, 1}, stderr : Stderrs, timeout : {FALSE}]
           \cup {[code |-> 0, stderr |-> ErrNone, timeout |-> TRUE]}

\* classify_push_failure without the non-fast-forward test
classify_push_failure_no_nff(stderr) ==
    IF \/ Contains(Lower(stderr), <<"p", "r", "o", "t", "e", "c", "t", "e", "d", " ", "b", "r", "a", "n", "c", "h">>)
       \/ Contains(Lower(stderr), <<"p", "e", "r", "m", "i", "s", "s", "i", "o", "n", " ", "d", "e", "n", "i", "e", "d">>)
    THEN "BranchProtectionError"
    ELSE IF /\ Contains(Lower(stderr), <<"r", "e", "p", "o", "s", "i", "t", "o", "r", "y">>)
            /\ Contains(Lower(stderr), <<"n", "o", "t", " ", "f", "o", "u", "n", "d">>)
    THEN "RepositoryNotFoundError"
    ELSE "PushError"

\* the exception execute_git_push raises for a non-zero exit
classify_push_failure(stderr) ==
    IF \/ Contains(Lower(stderr), <<"p", "r", "o", "t", "e", "c", "t", "e", "d", " ", "b", "r", "a", "n", "c", "h">>)
       \/ Contains(Lower(stderr), <<"p", "e", "r", "m", "i", "s", "s", "i", "o", "n", " ", "d", "e", "n", "i", "e", "d">>)
    THEN "BranchProtectionError"
    ELSE IF /\ Contains(Lower(stderr), <<"r", "e", "p", "o", "s", "i", "t", "o", "r", "y">>)
            /\ Contains(Lower(stderr), <<"n", "o", "t", " ", "f", "o", "u", "n", "d">>)
    THEN "RepositoryNotFoundError"
    ELSE IF \/ Contains(Lower(stderr), <<"n", "o", "n", "-", "f", "a", "s", "t", "-", "f", "o", "r", "w", "a", "r", "d">>)
            \/ Contains(stderr, <<"[", "r", "e", "j", "e", "c", "t", "e", "d", "]">>)
    THEN "NonFastForwardError"
    ELSE "PushError"

PushResult(name, action, branch) ==
    [ kind |-> "result", project_name |-> name, status |-> "SUCCESS",
      action |-> action, branch_name |-> branch, error_message |-> "None" ]

\* execute_git_push reporting a non-zero exit as a FAILED PushResult
\* instead of raising
execute_git_push_returns_failure(name, branch, e) ==
    IF e.timeout
    THEN [exc |-> "TimeoutExpired", result |-> NoRet]
    ELSE IF e.code # 0
    THEN [exc |-> "none",
          result |-> [PushResult(name, "SKIPPED", branch)
                        EXCEPT !.status = "FAILED", !.error_message = "stderr"]]
    ELSE [exc |-> "none", result |-> PushResult(name, "UPDATED", branch)]

\* execute_git_push: [exc, result]
execute_git_push(name, branch, e) ==
    IF e.timeout
    THEN [exc |-> "TimeoutExpired", result |-> NoRet]
    ELSE IF e.code # 0
    THEN [exc |-> classify_push_failure(e.stderr), result |-> NoRet]
    ELSE [exc |-> "none",
          result |-> PushResult(name,
                         IF Contains(e.stderr, <<"[", "n", "e", "w", " ", "b", "r", "a", "n", "c", "h", "]">>)
                         THEN "CREATED" ELSE "UPDATED",
                         branch)]

----------------------------------------------------------------------------
(* SubtreeManager.push_single_component *)

\* the Project objects a caller can pass: a manifest project, with any of
\* the revisions a manifest can give it
PushProjects ==
    { [Manifest.projects[i] EXCEPT !.revision = r] :
        i \in Components, r \in Range(Revisions) }

\* line 299: the push URL if the remote has one, else fetch + name
remote_url(project) ==
    IF Manifest.remotes[project.remote].push_url # <<>>
    THEN Manifest.remotes[project.remote].push_url
    ELSE Manifest.remotes[project.remote].fetch \o project.name

Heads == {Main, Develop, Feature, Detached}
OriginHeads == {NoRef, OriginPrefix \o Main, OriginPrefix \o Develop}

CallPush ==
    /\ pc = "idle"
    /\ \E project \in PushProjects, force \in BOOLEAN, dry_run \in BOOLEAN :
          args' = [NoArgs EXCEPT !.project = project, !.force = force,
                                 !.dry_run = dry_run]
    /\ op' = "push_single_component"
    /\ pc' = "resolve"
    /\ UNCHANGED <<changes, stash, markers, projected, clock, idx, results,
                   fileres, stashed, exc, ret, log, head, originHead, remote,
                   proc, fscalls, statuses, detail,
                   temps>>

\* push_single_component that ignores its dry_run argument
push_plan_ignores_dry_run(dry_run) == "execute"

\* lines 302-321: a dry run returns a simulated result, else the push runs
push_plan(dry_run) == IF dry_run THEN "simulate" ELSE "execute"

\* lines 291-311: branch information, target branch, and the dry-run return
PushResolve ==
    /\ op = "push_single_component"
    /\ pc = "resolve"
    /\ \E b \in {create_branch_info(head, originHead)} :
       \E i \in {IndexOf(args.project)} :
         IF b.exc # "none"
         THEN /\ log' = Append(log, Event("symbolic_ref", i, 0, FALSE))
              /\ exc' = b.exc
              /\ pc' = "raised"
              /\ ret' = ret
         ELSE /\ log' = log \o << Event("symbolic_ref", i, 0, TRUE),
                                 Event("symbolic_ref", i, 1, originHead # NoRef) >>
              /\ exc' = exc
              /\ IF push_plan(args.dry_run) = "simulate"
                 THEN /\ pc' = "returned"
                      /\ ret' = PushResult(args.project.name, "UPDATED",
                                    determine_target_branch(b.info, args.project))
                 ELSE /\ pc' = "push"
                      /\ ret' = ret
    /\ UNCHANGED <<op, args, changes, stash, markers, projected, clock, idx,
                   results, fileres, stashed, head, originHead, remote,
                   proc, fscalls, statuses, detail,
                   temps>>

\* lines 314-323: git subtree push to the target branch of the remote
PushExecute ==
    /\ op = "push_single_component"
    /\ pc = "push"
    /\ \E e \in PushEnv :
       \E branch \in {determine_target_branch(
                         create_branch_info(head, originHead).info, args.project)} :
       \E r \in {execute_git_push(args.project.name, branch, e)} :
         /\ log' = Append(log, Event("subtree_push", IndexOf(args.project), 0,
                                     r.exc = "none"))
         /\ exc' = r.exc
         /\ ret' = r.result
         /\ pc' = IF r.exc = "none" THEN "returned" ELSE "raised"
         /\ remote' = IF r.exc = "none"
                      THEN remote \cup {[url |-> remote_url(args.project),
                                         branch |-> branch]}
                      ELSE remote
         /\ proc' = e
    /\ UNCHANGED <<op, args, changes, stash, markers, projected, clock, idx,
                   results, fileres, stashed, head, originHead, fscalls, statuses, detail,
                   temps>>

\* cli.py push_command: the component argument is required; args.env keeps
\* the text given on the command line
CallPushCommand ==
    /\ pc = "idle"
    /\ \E c \in ComponentArgs \ {<<>>}, force \in BOOLEAN, dry_run \in BOOLEAN :
          args' = [NoArgs EXCEPT !.force = force, !.dry_run = dry_run,
                                 !.env = c]
    /\ op' = "push_command"
    /\ pc' = "start"
    /\ UNCHANGED <<changes, stash, markers, projected, clock, idx, results,
                   fileres, stashed, exc, ret, log, head, originHead, remote,
                   proc, fscalls, statuses, detail,
                   temps>>

\* the except clauses of push_command, inner try first (lines 487-514)
push_exit_code(e) ==
    IF IsInstance(e, "NonFastForwardError") THEN 2
    ELSE IF IsInstance(e, "BranchProtectionError") THEN 4
    ELSE IF IsInstance(e, "RepositoryNotFoundError") THEN 3
    ELSE IF IsInstance(e, "WorkspaceError") THEN 1
    ELSE IF IsInstance(e, "ManifestError") THEN 1
    ELSE IF IsInstance(e, "GitOperationError") THEN 2
    ELSE IF IsInstance(e, "SubrepoError") THEN 1
    ELSE 2

\* lines 410-454: workspace and manifest are loaded, the component is found,
\* the branches are detected for the message; then push_single_component is
\* called with the Project found
PushCommandStart ==
    /\ op = "push_command" /\ pc = "start"
    /\ \E e \in CliEnv :
       \E i \in {find_component(args.env)} :
       \E b \in {create_branch_info(head, originHead)} :
         IF e # "ok" \/ i = 0
         THEN /\ pc' = "exited"
              /\ ret' = [kind |-> "exit",
                         code |-> IF e = "manifest_error"
                                  THEN push_exit_code("ManifestError") ELSE 3]
              /\ UNCHANGED <<op, args, log>>
         ELSE IF b.exc # "none"
         THEN /\ pc' = "exited"
              /\ ret' = [kind |-> "exit",
                         code |-> IF b.exc = "DetachedHeadError"
                                  THEN 3 ELSE push_exit_code(b.exc)]
              /\ log' = Append(log, Event("symbolic_ref", i, 0, FALSE))
              /\ UNCHANGED <<op, args>>
         ELSE /\ pc' = "resolve"
              /\ op' = "push_single_component"
              /\ args' = [args EXCEPT !.project = Manifest.projects[i]]
              /\ log' = log \o << Event("symbolic_ref", i, 0, TRUE),
                                  Event("symbolic_ref", i, 1, originHead # NoRef) >>
              /\ ret' = ret
    /\ UNCHANGED <<changes, stash, markers, projected, clock, idx, results,
                   fileres, stashed, exc, head, originHead, remote, proc,
                   fscalls, statuses, detail,
                   temps>>

\* lines 456-514: the result or the exception of push_single_component
\* becomes the exit code
PushCommandEnd ==
    /\ op = "push_single_component"
    /\ args.env # <<>>
    /\ pc \in {"returned", "raised"}
    /\ op' = "push_command"
    /\ pc' = "exited"
    /\ ret' = [kind |-> "exit",
               code |-> IF pc = "returned" THEN 0 ELSE push_exit_code(exc)]
    /\ UNCHANGED <<args, changes, stash, markers, projected, clock, idx,
                   results, fileres, stashed, exc, log, head, originHead,
                   remote, proc, fscalls, statuses, detail,
                   temps>>

\* models.BranchInfo(...) called with any four field values: the frozen
\* object as given, or the ValueError of __post_init__
ConstructBranchInfo ==
    /\ pc = "idle"
    /\ \E b \in [ current_branch    : {Main, Develop, <<>>},
                   is_default_branch : BOOLEAN,
                   default_branch    : {Main, Develop, <<>>},
                   target_branch     : {Main, Develop, <<>>} ] :
          /\ args' = [NoArgs EXCEPT !.project = b]
          /\ IF BranchInfoValid(b)
             THEN /\ pc' = "returned"
                  /\ ret' = [kind |-> "branch_info", info |-> b]
                  /\ exc' = exc
             ELSE /\ pc' = "raised"
                  /\ exc' = "ValueError"
                  /\ ret' = ret
    /\ op' = "BranchInfo"
    /\ UNCHANGED <<changes, stash, markers, projected, clock, idx, results,
                   fileres, stashed, log, head, originHead, remote, proc,
                   fscalls, statuses, detail,
                   temps>>

PushInit ==
    /\ WorkspaceInit
    /\ head \in Heads
    /\ originHead \in OriginHeads

PushNext ==
    \/ CallPush
    \/ PushResolve
    \/ PushExecute
    \/ ConstructBranchInfo
    \/ CallPushCommand
    \/ PushCommandStart
    \/ PushCommandEnd

SpecPush == PushInit /\ [][PushNext]_vars

----------------------------------------------------------------------------
(* file_operations.py called on its own *)

\* the texts validate_path_security is called with
PathTexts == { <<"f">>, <<"d", "/", "f">>, <<".", ".">>,
               <<"a", "/", ".", ".", "/", "b">>, <<"/", "e">> }

\* how the paths of one validate_path_security call resolve
ResolveEnv == {"ok", "escapes_root", "src_outside"}

\* Copyfile / Linkfile objects: no "..", not absolute (models.py __post_init__)
Directives == { [src |-> <<"f">>, dest |-> <<"o">>],
                [src |-> <<"g">>, dest |-> <<"q", "/", "o">>],
                [src |-> <<"d">>, dest |-> <<"k">>] }

\* directive lists of a project: up to MaxDirectives directives, each
\* destination named once
DirectiveLists ==
    { l \in UNION { [1..n -> Directives] : n \in 0..MaxDirectives } :
        \A j, k \in DOMAIN l : j # k => l[j].dest # l[k].dest }

\* the Project objects the execute_* functions are called with
FileProjects ==
    { [Manifest.projects[1] EXCEPT !.copyfiles = l, !.linkfiles = l] :
        l \in DirectiveLists }

CallValidate ==
    /\ pc = "idle"
    /\ \E src \in PathTexts, dest \in PathTexts, e \in ResolveEnv :
          args' = [NoArgs EXCEPT !.project = [src |-> src, dest |-> dest],
                                 !.env = e]
    /\ op' = "validate_path_security"
    /\ pc' = "body"
    /\ UNCHANGED <<changes, stash, markers, projected, clock, idx, results,
                   fileres, stashed, exc, ret, log, head, originHead, remote,
                   proc, fscalls, statuses, detail,
                   temps>>

Validate ==
    /\ op = "validate_path_security"
    /\ pc = "body"
    /\ exc' = validate_path_security(args.project.src, args.project.dest,
                                     args.env = "escapes_root")
    /\ pc' = IF exc' = "none" THEN "returned" ELSE "raised"
    /\ UNCHANGED <<op, args, changes, stash, markers, projected, clock, idx,
                   results, fileres, stashed, ret, log, head, originHead,
                   remote, proc, fscalls, statuses, detail,
                   temps>>

CallExecuteCopy ==
    /\ pc = "idle"
    /\ \E project \in FileProjects :
       \E e \in [DOMAIN project.copyfiles -> CopyEnv] :
          args' = [NoArgs EXCEPT !.project = project, !.env = e]
    /\ op' = "execute_copyfile_operations"
    /\ pc' = "body"
    /\ UNCHANGED <<changes, stash, markers, projected, clock, idx, results,
                   fileres, stashed, exc, ret, log, head, originHead, remote,
                   proc, fscalls, statuses, detail,
                   temps>>

CallExecuteLink ==
    /\ pc = "idle"
    /\ \E project \in FileProjects :
       \E e \in [DOMAIN project.linkfiles -> LinkEnv] :
          args' = [NoArgs EXCEPT !.project = project, !.env = e]
    /\ op' = "execute_linkfile_operations"
    /\ pc' = "body"
    /\ UNCHANGED <<changes, stash, markers, projected, clock, idx, results,
                   fileres, stashed, exc, ret, log, head, originHead, remote,
                   proc, fscalls, statuses, detail,
                   temps>>

\* the state after an execute_* call r: the list returned, or the exception
Executed(r) ==
    /\ projected' = r.projected
    /\ log' = r.log
    /\ fscalls' = r.fscalls
    /\ exc' = r.exc
    /\ ret' = IF r.exc = "none" THEN [kind |-> "list", results |-> r.acc] ELSE ret
    /\ pc' = IF r.exc = "none" THEN "returned" ELSE "raised"
    /\ UNCHANGED <<op, args, changes, stash, markers, clock, idx, results,
                   fileres, stashed, head, originHead, remote, proc, statuses, detail,
                   temps>>

ExecuteCopy ==
    /\ op = "execute_copyfile_operations"
    /\ pc = "body"
    /\ Executed(execute_copyfile_operations(args.project, args.env, St))

ExecuteLink ==
    /\ op = "execute_linkfile_operations"
    /\ pc = "body"
    /\ Executed(execute_linkfile_operations(args.project, args.env, St))

\* the link directives executed once more by the next sync of the component
\* (_sync_component, lines 171-178), the filesystem behaving as before;
\* fileres keeps the list the first execution returned
ExecuteLinkAgain ==
    /\ op = "execute_linkfile_operations"
    /\ pc = "returned"
    /\ Len(args.project.linkfiles) > 0
    /\ fileres' = ret.results
    /\ \E r \in {execute_linkfile_operations(args.project, args.env, St)} :
          /\ projected' = r.projected
          /\ log' = r.log
          /\ fscalls' = r.fscalls
          /\ exc' = r.exc
          /\ ret' = IF r.exc = "none"
                    THEN [kind |-> "list", results |-> r.acc] ELSE ret
          /\ pc' = IF r.exc = "none" THEN "returned_again" ELSE "raised"
    /\ UNCHANGED <<op, args, changes, stash, markers, clock, idx, results,
                   stashed, head, originHead, remote, proc, statuses, detail,
                   temps>>

FilesInit ==
    /\ WorkspaceInit
    /\ head = Main
    /\ originHead = OriginPrefix \o Main

FilesNext ==
    \/ CallValidate
    \/ Validate
    \/ CallExecuteCopy
    \/ ExecuteCopy
    \/ CallExecuteLink
    \/ ExecuteLink
    \/ ExecuteLinkAgain

SpecFiles == FilesInit /\ [][FilesNext]_vars

----------------------------------------------------------------------------
(* subtree_manager.py: component status detection *)

RECURSIVE LStrip(_)
\* str.lstrip() of a text whose only whitespace is the space character;
\* str.strip() is RStripChar(LStrip(s), " ")
LStrip(s) ==
    IF s # <<>> /\ Head(s) = " " THEN LStrip(Tail(s)) ELSE s

RECURSIVE RStripChar(_, _)
\* str.rstrip(ch)
RStripChar(s, ch) ==
    IF s # <<>> /\ s[Len(s)] = ch
    THEN RStripChar(SubSeq(s, 1, Len(s) - 1), ch)
    ELSE s

\* models.SubtreeState, with the dataclass defaults of the count fields and
\* of the last-sync fields (None: no commit text, time -1)
SubtreeState(project, status, has_local_changes) ==
    [ project           |-> project,
      last_sync_commit  |-> <<>>,
      last_sync_time    |-> -1,
      status            |-> status,
      has_local_changes |-> has_local_changes,
      local_commits     |-> 0,
      upstream_commits  |-> 0 ]

\* what one detect_component_state call finds: whether the component path
\* exists, and how `git status --short` ends
StatusEnv == [exists : BOOLEAN, status : GitOutcomes]

\* lines 208-227: has_changes after the loop over the lines; a line counts
\* when filename = line[3:].strip() starts with the component path or is,
\* without its trailing slashes, a prefix of it
has_changes(path, st) ==
    /\ st.res.success
    /\ \E line \in st.lines :
          /\ RStripChar(LStrip(line), " ") # <<>>
          /\ Len(line) >= 3
          /\ \E filename \in {RStripChar(LStrip(SubSeq(line, 4, Len(line))), " ")} :
                \/ StartsWith(filename, path)
                \/ StartsWith(path, RStripChar(filename, "/"))

\* SubtreeManager.detect_component_state: the SubtreeState returned, or the
\* exception git_status raises
detect_component_state(p, e, chg) ==
    IF ~e.exists
    THEN [exc |-> "none", state |-> SubtreeState(p, "uninitialized", FALSE)]
    ELSE IF git_status(e.status, chg).res.exc # "none"
    THEN [exc |-> git_status(e.status, chg).res.exc, state |-> <<>>]
    ELSE IF has_changes(p.path, git_status(e.status, chg))
    THEN [exc |-> "none", state |-> SubtreeState(p, "modified", TRUE)]
    ELSE [exc |-> "none", state |-> SubtreeState(p, "up-to-date", FALSE)]

\* what detect_component_state asks of the environment, as it enters the log
detect_events(i, e) ==
    IF e.exists
    THEN << Event("exists", i, 0, TRUE), Event("status", i, 0, e.status = "ok") >>
    ELSE << Event("exists", i, 0, FALSE) >>

CallDetect ==
    /\ pc = "idle"
    /\ \E i \in Components :
          args' = [NoArgs EXCEPT !.project = Manifest.projects[i]]
    /\ op' = "detect_component_state"
    /\ pc' = "body"
    /\ UNCHANGED <<changes, stash, markers, projected, clock, idx, results,
                   fileres, stashed, exc, ret, log, head, originHead, remote,
                   proc, fscalls, statuses, detail,
                   temps>>

Detect ==
    /\ op = "detect_component_state"
    /\ pc = "body"
    /\ \E e \in StatusEnv :
       \E r \in {detect_component_state(args.project, e, changes)} :
          /\ log' = log \o detect_events(IndexOf(args.project), e)
          /\ exc' = r.exc
          /\ ret' = IF r.exc = "none"
                    THEN [kind |-> "state", state |-> r.state]
                    ELSE ret
          /\ pc' = IF r.exc = "none" THEN "returned" ELSE "raised"
    /\ UNCHANGED <<op, args, changes, stash, markers, projected, clock, idx,
                   results, fileres, stashed, head, originHead, remote, proc,
                   fscalls, statuses, detail,
                   temps>>

\* what `git status --short` may list when a status is asked for: a file in
\* the first component, the untracked parent directory of the components,
\* an untracked file beside the first component whose name extends the
\* component's, and an untracked file at the workspace root.  An untracked
\* directory is listed alone, never together with a path below it.
StatusListings ==
    { chg \in SUBSET { [code |-> Tracked,   path |-> Project(1).path \o <<"/", "f">>],
                       [code |-> Untracked, path |-> <<"l", "/">>],
                       [code |-> Untracked, path |-> Project(1).path \o <<"b">>],
                       [code |-> Untracked, path |-> <<"r">>] } :
        \A c, d \in chg :
            (c.path[Len(c.path)] = "/" /\ StartsWith(d.path, c.path)) => c = d }

\* the path of SubtreeManager.subtree_state_dir, .subrepo/subtrees
subtree_state_dir == <<".", "s", "/", "s">>

\* a scan whose except clause reports the component as uninitialized
scan_one_reports_uninitialized(p, e, chg) ==
    IF IsInstance(detect_component_state(p, e, chg).exc, "Exception")
    THEN SubtreeState(p, "uninitialized", FALSE)
    ELSE detect_component_state(p, e, chg).state

\* lines 642-656: one turn of the loop, the except clause included
scan_one(p, e, chg) ==
    IF IsInstance(detect_component_state(p, e, chg).exc, "Exception")
    THEN [SubtreeState(p, "error", FALSE) EXCEPT !.local_commits = 0,
                                                 !.upstream_commits = 0]
    ELSE detect_component_state(p, e, chg).state

CallGetAll ==
    /\ pc = "idle"
    /\ args' = NoArgs
    /\ op' = "get_all_component_status"
    /\ pc' = "construct"
    /\ UNCHANGED <<changes, stash, markers, projected, clock, idx, results,
                   fileres, stashed, exc, ret, log, head, originHead, remote,
                   proc, fscalls, statuses, detail,
                   temps>>

\* SubtreeManager.__init__ (lines 41-52), as get_all_component_status and
\* status_command reach it: subtree_state_dir.mkdir(parents, exist_ok)
Construct ==
    /\ op \in {"get_all_component_status", "status_command"}
    /\ pc = "construct"
    /\ \E made \in BOOLEAN :
          /\ fscalls' = Append(fscalls, FsCall("mkdir", subtree_state_dir, made))
          /\ IF made
             THEN /\ pc' = "scan"
                  /\ idx' = 1
                  /\ UNCHANGED <<exc, ret>>
             ELSE IF op = "status_command"
             THEN /\ pc' = "exited"
                  /\ ret' = [kind |-> "exit", code |-> 2]
                  /\ UNCHANGED <<exc, idx>>
             ELSE /\ pc' = "raised"
                  /\ exc' = "OSError"
                  /\ UNCHANGED <<ret, idx>>
    /\ statuses' = <<>>
    /\ UNCHANGED <<op, args, changes, stash, markers, projected, clock,
                   results, fileres, stashed, log, head, originHead, remote,
                   proc,
                   detail,
                   temps>>

\* lines 642-658: the loop over manifest.projects, then the return
Scan ==
    /\ op \in {"get_all_component_status", "status_command"}
    /\ pc = "scan"
    /\ IF idx \in Components
       THEN \E e \in StatusEnv :
              /\ statuses' = Append(statuses,
                                    scan_one(Manifest.projects[idx], e, changes))
              /\ log' = log \o detect_events(idx, e)
              /\ idx' = idx + 1
              /\ UNCHANGED <<pc, ret>>
       ELSE /\ IF op = "status_command"
               THEN pc' = "output" /\ ret' = ret
               ELSE pc' = "returned" /\ ret' = [kind |-> "states", states |-> statuses]
            /\ UNCHANGED <<statuses, log, idx>>
    /\ UNCHANGED <<op, args, changes, stash, markers, projected, clock,
                   results, fileres, stashed, exc, head, originHead, remote,
                   proc, fscalls,
                   detail,
                   temps>>

----------------------------------------------------------------------------
(* cli.py: status_command *)

\* _output_status_json / _output_status_text: the summary block
status_summary(sts) ==
    [ total         |-> Len(sts),
      up_to_date    |-> Cardinality({k \in DOMAIN sts : sts[k].status = "up-to-date"}),
      ahead         |-> Cardinality({k \in DOMAIN sts : sts[k].status = "ahead"}),
      behind        |-> Cardinality({k \in DOMAIN sts : sts[k].status = "behind"}),
      diverged      |-> Cardinality({k \in DOMAIN sts : sts[k].status = "diverged"}),
      modified      |-> Cardinality({k \in DOMAIN sts : sts[k].status = "modified"}),
      uninitialized |-> Cardinality({k \in DOMAIN sts : sts[k].status = "uninitialized"}) ]

CallStatusCommand ==
    /\ pc = "idle"
    /\ \E c \in ComponentArgs, f \in {"text", "json", "compact"},
         porcelain \in BOOLEAN :
         args' = [component |-> c, format |-> f, porcelain |-> porcelain]
    /\ op' = "status_command"
    /\ pc' = "start"
    /\ UNCHANGED <<changes, stash, markers, projected, clock, idx, results,
                   fileres, stashed, exc, ret, log, head, originHead, remote,
                   proc, fscalls, statuses, detail,
                   temps>>

\* lines 615-643: workspace, config and manifest are loaded, the component
\* is looked up
StatusCommandStart ==
    /\ op = "status_command" /\ pc = "start"
    /\ \E e \in CliEnv :
         IF e # "ok"
         THEN /\ pc' = "exited"
              /\ ret' = [kind |-> "exit", code |-> 2]
         ELSE IF args.component # <<>> /\ find_component(args.component) = 0
         THEN /\ pc' = "exited"
              /\ ret' = [kind |-> "exit", code |-> 1]
         ELSE /\ pc' = IF args.component # <<>> THEN "single" ELSE "construct"
              /\ ret' = ret
    /\ UNCHANGED <<op, args, changes, stash, markers, projected, clock, idx,
                   results, fileres, stashed, exc, log, head, originHead,
                   remote, proc, fscalls, statuses, detail,
                   temps>>

\* line 645: statuses = [get_component_status(workspace_path, project)];
\* an exception of it reaches the handlers of lines 681-695
StatusCommandSingle ==
    /\ op = "status_command" /\ pc = "single"
    /\ \E made \in BOOLEAN, e \in StatusEnv :
       \E i \in {find_component(args.component)} :
       \E r \in {detect_component_state(Manifest.projects[i], e, changes)} :
          /\ fscalls' = Append(fscalls, FsCall("mkdir", subtree_state_dir, made))
          /\ IF ~made
             THEN /\ pc' = "exited"
                  /\ ret' = [kind |-> "exit", code |-> 2]
                  /\ UNCHANGED <<log, statuses>>
             ELSE /\ log' = log \o detect_events(i, e)
                  /\ IF r.exc # "none"
                     THEN /\ pc' = "exited"
                          /\ ret' = [kind |-> "exit", code |-> 2]
                          /\ statuses' = statuses
                     ELSE /\ pc' = "output"
                          /\ ret' = ret
                          /\ statuses' = <<r.state>>
    /\ UNCHANGED <<op, args, changes, stash, markers, projected, clock, idx,
                   results, fileres, stashed, exc, head, originHead, remote,
                   proc,
                   detail,
                   temps>>

\* lines 649-679: the output in the chosen format, then the exit code: 1
\* when a component is neither up to date nor uninitialized
StatusCommandOutput ==
    /\ op = "status_command" /\ pc = "output"
    /\ \E output_format \in {IF args.porcelain THEN "compact" ELSE args.format} :
          ret' = [kind    |-> "exit",
                  code    |-> IF \E k \in DOMAIN statuses :
                                    statuses[k].status \notin
                                        {"up-to-date", "uninitialized"}
                              THEN 1 ELSE 0,
                  format  |-> output_format,
                  states  |-> statuses,
                  summary |-> IF output_format = "compact"
                              THEN <<>>
                              ELSE status_summary(statuses)]
    /\ pc' = "exited"
    /\ UNCHANGED <<op, args, changes, stash, markers, projected, clock, idx,
                   results, fileres, stashed, exc, log, head, originHead,
                   remote, proc, fscalls, statuses, detail,
                   temps>>

\* _save_subtree_state step by step (lines 325-352), as the filesystem
\* sees it

CallSave ==
    /\ pc = "idle"
    /\ \E i \in Components :
          args' = [NoArgs EXCEPT !.project = Manifest.projects[i]]
    /\ op' = "_save_subtree_state"
    /\ pc' = "open"
    /\ UNCHANGED <<changes, stash, markers, projected, clock, idx, results,
                   fileres, stashed, exc, ret, log, head, originHead, remote,
                   proc, fscalls, statuses, detail, temps>>

\* a save whose write_text goes to the state file itself
write_text_in_place(m, t, f, content) ==
    [markers |-> [m EXCEPT ![f] = content], temps |-> t]

\* lines 349-350: temp_file = state_file.with_suffix(".json.tmp");
\* temp_file.write_text(...): the state directory after the temporary file
\* of state file f holds content
write_text(m, t, f, content) ==
    [markers |-> m, temps |-> [t EXCEPT ![f] = content]]

\* write_text, first half: the temporary file is created or truncated
SaveOpen ==
    /\ op = "_save_subtree_state" /\ pc = "open"
    /\ \E e \in SaveEnv :
          IF e = "ok"
          THEN \E w \in {write_text(markers, temps,
                                    safe_name(args.project.path), PartialMarker)} :
                  /\ markers' = w.markers
                  /\ temps' = w.temps
                  /\ pc' = "write"
                  /\ exc' = exc
          ELSE /\ pc' = "raised"
               /\ exc' = "OSError"
               /\ UNCHANGED <<markers, temps>>
    /\ UNCHANGED <<op, args, changes, stash, projected, clock, idx, results,
                   fileres, stashed, ret, log, head, originHead, remote,
                   proc, fscalls, statuses, detail>>

\* write_text, second half: the whole text is written and the file closed,
\* or the write fails and leaves the file as it is
SaveWrite ==
    /\ op = "_save_subtree_state" /\ pc = "write"
    /\ \E e \in SaveEnv :
          IF e = "ok"
          THEN \E w \in {write_text(markers, temps, safe_name(args.project.path),
                             [ project_name   |-> args.project.name,
                               project_path   |-> args.project.path,
                               last_sync_time |-> clock,
                               status         |-> "up-to-date" ])} :
                  /\ markers' = w.markers
                  /\ temps' = w.temps
                  /\ pc' = "rename"
                  /\ exc' = exc
          ELSE /\ pc' = "raised"
               /\ exc' = "OSError"
               /\ UNCHANGED <<markers, temps>>
    /\ UNCHANGED <<op, args, changes, stash, projected, clock, idx, results,
                   fileres, stashed, ret, log, head, originHead, remote,
                   proc, fscalls, statuses, detail>>

\* line 352: temp_file.rename(state_file) replaces the state file in one
\* step, or fails and changes nothing
SaveRename ==
    /\ op = "_save_subtree_state" /\ pc = "rename"
    /\ \E e \in SaveEnv :
       \E f \in {safe_name(args.project.path)} :
          IF e = "ok"
          THEN /\ markers' = [markers EXCEPT ![f] = temps[f]]
               /\ temps' = [temps EXCEPT ![f] = NoMarker]
               /\ pc' = "returned"
               /\ exc' = exc
          ELSE /\ pc' = "raised"
               /\ exc' = "OSError"
               /\ UNCHANGED <<markers, temps>>
    /\ UNCHANGED <<op, args, changes, stash, projected, clock, idx, results,
                   fileres, stashed, ret, log, head, originHead, remote,
                   proc, fscalls, statuses, detail>>

\* the process is killed between two steps of the save
SaveCrash ==
    /\ op = "_save_subtree_state"
    /\ pc \in {"open", "write", "rename"}
    /\ pc' = "crashed"
    /\ UNCHANGED <<op, args, changes, stash, markers, projected, clock, idx,
                   results, fileres, stashed, exc, ret, log, head, originHead,
                   remote, proc, fscalls, statuses, detail, temps>>

StatusInit ==
    /\ WorkspaceIdle
    /\ changes \in StatusListings
    /\ head = Main
    /\ originHead = OriginPrefix \o Main

StatusNext ==
    \/ CallDetect
    \/ Detect
    \/ CallGetAll
    \/ Construct
    \/ Scan
    \/ CallStatusCommand
    \/ StatusCommandStart
    \/ StatusCommandSingle
    \/ StatusCommandOutput
    \/ CallSave
    \/ SaveOpen
    \/ SaveWrite
    \/ SaveRename
    \/ SaveCrash

SpecStatus == StatusInit /\ [][StatusNext]_vars

----------------------------------------------------------------------------
(* manifest_parser.py: parse_manifest and validate_manifest *)

\* a manifest document: the <remote> elements, the <default> remote and up
\* to MaxComponents <project> elements, each with a path, a remote
\* attribute that is absent or names a remote no <remote> element defines,
\* and its <copyfile> / <linkfile> child elements in document order; the
\* name attribute of an element is set from its position
ManifestDocs ==
    [ remotes        : SUBSET {"origin"},
      default_remote : {"", "origin", "nowhere"},
      projects       :
          UNION { [1..n -> [path     : { <<"l", "/", "a">>, <<"l", "_", "a">>,
                                         <<"/", "e">>, <<".", ".", "/", "u">> },
                            remote   : {"", "nowhere"},
                            children :
                              { <<>>,
                                << [tag |-> "copyfile", src |-> <<"f">>, dest |-> <<"o">>],
                                   [tag |-> "linkfile", src |-> <<"d">>, dest |-> <<"k">>],
                                   [tag |-> "copyfile", src |-> <<"g">>, dest |-> <<"q">>] >> }]] :
                    n \in 0..MaxComponents } ]

\* one violation named in an error message: the rule and the paths or
\* project names the message gives
Violation(rule, subject) == [rule |-> rule, subject |-> subject]

\* line 106: the name attribute
ElemName(k) == <<"o", "/", Letters[k]>>

\* line 115: project_elem.get("remote") or default_remote
ElemRemote(doc, k) ==
    IF doc.projects[k].remote # "" THEN doc.projects[k].remote
    ELSE doc.default_remote

\* models.Project.__post_init__: the ValueError it raises, <<>> for none
ProjectPostInit(name, path, remote_name) ==
    IF name = <<>> THEN <<Violation("empty_name", {})>>
    ELSE IF path = <<>> THEN <<Violation("empty_path", {})>>
    ELSE IF Head(path) = "/" \/ path[Len(path)] = "/"
    THEN <<Violation("absolute_path", {path})>>
    ELSE IF Contains(path, <<".", ".">>)
    THEN <<Violation("dotdot_path", {path})>>
    ELSE IF remote_name = "" THEN <<Violation("empty_remote", {})>>
    ELSE <<>>

\* the paths listed more than once
Duplicates(projects) ==
    { projects[j].path : j \in { j \in DOMAIN projects :
                                   \E k \in DOMAIN projects :
                                       k # j /\ projects[k].path = projects[j].path } }

\* the first index of a sequence that satisfies a test, which one does
FirstIndex(S) == CHOOSE k \in S : \A j \in S : k <= j

\* models.Manifest.__post_init__: the ValueError it raises, <<>> for none
ManifestPostInit(m) ==
    IF m.remotes = {} THEN <<Violation("no_remotes", {})>>
    ELSE IF m.projects = <<>> THEN <<Violation("no_projects", {})>>
    ELSE IF m.default_remote # "" /\ m.default_remote \notin m.remotes
    THEN <<Violation("default_remote", {})>>
    ELSE IF \E k \in DOMAIN m.projects : m.projects[k].remote \notin m.remotes
    THEN <<Violation("dangling_remote",
             {m.projects[FirstIndex({k \in DOMAIN m.projects :
                                       m.projects[k].remote \notin m.remotes})].name})>>
    ELSE IF Duplicates(m.projects) # {}
    THEN <<Violation("duplicate_path", Duplicates(m.projects))>>
    ELSE <<>>

RECURSIVE Ascending(_)
\* the indices of a set in the order a loop over manifest.projects meets them
Ascending(S) ==
    IF S = {} THEN <<>>
    ELSE <<FirstIndex(S)>> \o Ascending(S \ {FirstIndex(S)})

\* the messages one per-project rule of validate_manifest appends for the
\* projects S that break it, each naming the project's name or its path
RuleErrors(m, rule, S, named) ==
    [ j \in DOMAIN Ascending(S) |->
        Violation(rule, {IF named = "name"
                         THEN m.projects[Ascending(S)[j]].name
                         ELSE m.projects[Ascending(S)[j]].path}) ]

\* Path(path).parts contains ".."
HasDotDotPart(path) ==
    \E a \in 1..(Len(path) - 1) :
        /\ path[a] = "." /\ path[a + 1] = "."
        /\ (a = 1 \/ path[a - 1] = "/")
        /\ (a + 1 = Len(path) \/ path[a + 2] = "/")

\* validate_manifest: the errors list (the exception raised when not empty)
validate_manifest(m) ==
    (IF m.remotes = {} THEN <<Violation("no_remotes", {})>> ELSE <<>>)
    \o (IF m.projects = <<>> THEN <<Violation("no_projects", {})>> ELSE <<>>)
    \o RuleErrors(m, "dangling_remote",
                  {k \in DOMAIN m.projects : m.projects[k].remote \notin m.remotes},
                  "name")
    \o RuleErrors(m, "duplicate_path",
                  {k \in DOMAIN m.projects :
                      \E j \in 1..(k - 1) : m.projects[j].path = m.projects[k].path},
                  "path")
    \o RuleErrors(m, "absolute_path",
                  {k \in DOMAIN m.projects : Head(m.projects[k].path) = "/"},
                  "path")
    \o RuleErrors(m, "dotdot_path",
                  {k \in DOMAIN m.projects : HasDotDotPart(m.projects[k].path)},
                  "path")
    \o (IF m.default_remote # "" /\ m.default_remote \notin m.remotes
        THEN <<Violation("default_remote", {})>> ELSE <<>>)

\* lines 105-153: the Project objects and the Manifest object built from
\* the document; Project(...) is given no copyfiles and no linkfiles, which
\* leaves them at their default, the empty list
ParsedManifest(doc) ==
    [ remotes        |-> doc.remotes,
      projects       |-> [k \in DOMAIN doc.projects |->
                            [ name      |-> ElemName(k),
                              path      |-> doc.projects[k].path,
                              remote    |-> ElemRemote(doc, k),
                              copyfiles |-> <<>>,
                              linkfiles |-> <<>> ]],
      default_remote |-> doc.default_remote ]

\* the <project> elements the loop of lines 105-139 stops at
Stops(doc) ==
    { k \in DOMAIN doc.projects :
        \/ ElemRemote(doc, k) = ""
        \/ ProjectPostInit(ElemName(k), doc.projects[k].path,
                           ElemRemote(doc, k)) # <<>> }

\* parse_manifest: the Manifest returned, or the exception and its message.
\* The first element the loop of lines 105-139 stops at decides; after the
\* projects, Manifest(...) (lines 146-156), then validate_manifest
parse_manifest(doc, e) ==
    IF e # "ok"
    THEN [exc |-> "ManifestError", detail |-> <<Violation(e, {})>>,
          manifest |-> <<>>]
    ELSE IF Stops(doc) # {} /\ ElemRemote(doc, FirstIndex(Stops(doc))) = ""
    THEN [exc |-> "ManifestError",
          detail |-> <<Violation("no_remote", {ElemName(FirstIndex(Stops(doc)))})>>,
          manifest |-> <<>>]
    ELSE IF Stops(doc) # {}
    THEN [exc |-> "ManifestValidationError",
          detail |-> ProjectPostInit(ElemName(FirstIndex(Stops(doc))),
                                     doc.projects[FirstIndex(Stops(doc))].path,
                                     ElemRemote(doc, FirstIndex(Stops(doc)))),
          manifest |-> <<>>]
    ELSE IF ManifestPostInit(ParsedManifest(doc)) # <<>>
    THEN [exc |-> "ManifestValidationError",
          detail |-> ManifestPostInit(ParsedManifest(doc)), manifest |-> <<>>]
    ELSE IF validate_manifest(ParsedManifest(doc)) # <<>>
    THEN [exc |-> "ManifestValidationError",
          detail |-> validate_manifest(ParsedManifest(doc)), manifest |-> <<>>]
    ELSE [exc |-> "none", detail |-> <<>>, manifest |-> ParsedManifest(doc)]

CallParseManifest ==
    /\ pc = "idle"
    /\ \E e \in {"ok", "missing", "parse_error", "wrong_root"} :
       \E doc \in {d \in ManifestDocs : e = "ok" \/ d.projects = <<>>} :
          args' = [doc |-> doc, env |-> e]
    /\ op' = "parse_manifest"
    /\ pc' = "body"
    /\ UNCHANGED <<changes, stash, markers, projected, clock, idx, results,
                   fileres, stashed, exc, ret, log, head, originHead, remote,
                   proc, fscalls, statuses, detail,
                   temps>>

ParseManifest ==
    /\ op = "parse_manifest"
    /\ pc = "body"
    /\ \E r \in {parse_manifest(args.doc, args.env)} :
          /\ exc' = r.exc
          /\ detail' = r.detail
          /\ ret' = IF r.exc = "none"
                    THEN [kind |-> "manifest", manifest |-> r.manifest]
                    ELSE ret
          /\ pc' = IF r.exc = "none" THEN "returned" ELSE "raised"
    /\ UNCHANGED <<op, args, changes, stash, markers, projected, clock, idx,
                   results, fileres, stashed, log, head, originHead, remote,
                   proc, fscalls, statuses,
                   temps>>

ManifestInit ==
    /\ WorkspaceIdle
    /\ changes = {}
    /\ head = Main
    /\ originHead = OriginPrefix \o Main

ManifestNext ==
    \/ CallParseManifest
    \/ ParseManifest

SpecManifest == ManifestInit /\ [][ManifestNext]_vars

----------------------------------------------------------------------------
(* Reading the log *)

IsPull(e) == e.ev = "pull"
IsPop(e) == e.ev = "stash_pop"
IsPush(e) == e.ev = "stash_push"

\* the subtree pulls attempted so far, in order
Pulls == SelectSeq(log, IsPull)

InSyncAll == op = "sync_all_components"
Ended == pc \in {"returned", "raised", "exited"}

\* the workspace had uncommitted changes when the call began: they are still
\* in the working tree or in the stash
DirtyAtCall == changes # {} \/ stash # <<>>

----------------------------------------------------------------------------
(* Claims *)

\* C1: sync_all_components with continue_on_error=false: once the subtree
\* pull of a component has failed, no event of a later component exists (no
\* pull, no marker write, no copy or link), nothing follows the failed pull
\* but the stash pop, and the call is raising a GitOperationError.
C1_AbortsAtFirstFailure ==
    (InSyncAll /\ ~args.continue_on_error) =>
        \A k \in DOMAIN log :
            (log[k].ev = "pull" /\ ~log[k].ok) =>
                /\ \A m \in DOMAIN log : log[m].comp <= log[k].comp
                /\ \A m \in (k + 1)..Len(log) : log[m].ev = "stash_pop"
                /\ pc \in {"finally", "raised"}
                /\ IsInstance(exc, "GitOperationError")

\* the second component's pull failed after the first one's succeeded, and
\* the error reached the caller
C1_Witness ==
    /\ InSyncAll /\ ~args.continue_on_error /\ pc = "raised"
    /\ Len(Pulls) = 2
    /\ Pulls[1].ok /\ ~Pulls[2].ok
    /\ exc = "GitCommandError"

\* C2: sync_all_components with continue_on_error=true: the pulls attempted
\* are components 1, 2, ... in manifest order, each once; a failed pull of a
\* component that is not the last leaves the loop running at the next one;
\* and when the call returns, every component was attempted and results has
\* exactly one entry per component path, with success false exactly for the
\* components whose pull failed.
C2_ContinuesPastFailures ==
    (InSyncAll /\ args.continue_on_error) =>
        /\ \A k \in DOMAIN Pulls : Pulls[k].comp = k
        /\ \A k \in DOMAIN Pulls :
              (~Pulls[k].ok /\ k < MaxComponents) =>
                  \/ Len(Pulls) > k
                  \/ pc = "loop" /\ idx = k + 1
        /\ pc = "returned" =>
              /\ Len(Pulls) = MaxComponents
              /\ DOMAIN results = ProjectPaths
              /\ Cardinality(DOMAIN results) = MaxComponents
              /\ \A i \in Components :
                    results[Manifest.projects[i].path].success = Pulls[i].ok

\* the first pull failed, a later one succeeded, and the map was returned
C2_Witness ==
    /\ InSyncAll /\ args.continue_on_error /\ pc = "returned"
    /\ ~Pulls[1].ok
    /\ Pulls[MaxComponents].ok
    /\ ~results[Manifest.projects[1].path].success
    /\ results[Manifest.projects[MaxComponents].path].success

\* C3: sync_all_components without force, on a workspace whose git status
\* lists uncommitted changes: once the check has run the call has raised,
\* the only command run is that git status (no stash, no pull, no marker
\* write, no copy or link), and the exception is WorkspaceError whenever git
\* status answered.
C3_RefusesDirtyWorkspace ==
    (InSyncAll /\ ~args.force /\ changes # {} /\ pc # "check") =>
        /\ pc = "raised"
        /\ Len(log) = 1 /\ log[1].ev = "status"
        /\ log[1].ok => exc = "WorkspaceError"
        /\ ~stashed /\ stash = <<>> /\ projected = {} /\ clock = 1

\* a dirty workspace was refused
C3_Witness ==
    /\ InSyncAll /\ ~args.force /\ changes # {}
    /\ pc = "raised" /\ exc = "WorkspaceError"
    /\ log = <<Event("status", 0, 0, TRUE)>>

\* C4: sync_all_components with force on a workspace with local changes:
\* every pull comes after the stash push; while the loop runs no stash pop
\* has been run; and once the call has ended after a stash push - by a
\* return, by a failed component or by any other exception - exactly one stash
\* pop was run, after every pull, marker write, copy and link.
C4_StashAroundTheLoop ==
    (InSyncAll /\ args.force /\ DirtyAtCall) =>
        /\ \A k \in DOMAIN log :
              log[k].ev = "pull" =>
                  \E j \in 1..(k - 1) : log[j] = Event("stash_push", 0, 0, TRUE)
        /\ pc \in {"loop", "finally"} => Len(SelectSeq(log, IsPop)) = 0
        /\ (Ended /\ \E j \in DOMAIN log : log[j] = Event("stash_push", 0, 0, TRUE)) =>
              /\ Len(SelectSeq(log, IsPop)) = 1
              /\ log[Len(log)].ev = "stash_pop"

\* the stash was popped although saving a marker raised OSError
C4_Witness ==
    /\ InSyncAll /\ args.force /\ pc = "raised" /\ exc = "OSError"
    /\ Len(Pulls) >= 1
    /\ Len(SelectSeq(log, IsPush)) = 1
    /\ log[Len(log)].ev = "stash_pop"

\* C5: the sync command without --force in a workspace with uncommitted
\* changes runs no subtree pull and exits with code 1.
C5_SyncCommandRefusesDirty ==
    (op = "sync_command" /\ ~args.force /\ changes # {}) =>
        /\ \A k \in DOMAIN log : log[k].ev # "pull"
        /\ pc = "exited" => ret.code = 1

\* the events that follow a successful pull of component i: the marker, then
\* each copy directive, then each link directive
ExpectedAfterPull(i) ==
    <<[ev |-> "marker", n |-> 0]>>
    \o [k \in 1..Len(Manifest.projects[i].copyfiles) |-> [ev |-> "copy", n |-> k]]
    \o [k \in 1..Len(Manifest.projects[i].linkfiles) |-> [ev |-> "link", n |-> k]]

\* the directive behind a copy or link event
DirectiveOf(e) ==
    IF e.ev = "copy" THEN Manifest.projects[e.comp].copyfiles[e.n]
    ELSE Manifest.projects[e.comp].linkfiles[e.n]

\* the file of directive event e is in the workspace
InPlace(e) ==
    \E f \in projected :
        /\ f.dest = DirectiveOf(e).dest
        /\ f.src = Join(Manifest.projects[e.comp].path, DirectiveOf(e).src)

\* the marker file of component i holds a marker of i written by this call
MarkerInPlace(i) ==
    /\ markers[safe_name(Manifest.projects[i].path)].project_path
          = Manifest.projects[i].path
    /\ markers[safe_name(Manifest.projects[i].path)].last_sync_time >= 1

\* C6: in a sync batch, when a pull follows the successful pull of a
\* component, the events between the two are exactly that component's marker
\* write and its copy and link directives, in order; the marker is in place,
\* and so is the file of every directive that succeeded.  So it is when the
\* batch fails at the later component.
C6_ProjectionsBeforeNextPull ==
    (op \in {"sync_all_components", "sync_command"}) =>
        \A k \in DOMAIN log :
            (log[k].ev = "pull" /\ log[k].ok
                /\ \E m \in (k + 1)..Len(log) : log[m].ev = "pull") =>
              \E i \in {log[k].comp} :
              \E exp \in {ExpectedAfterPull(i)} :
                /\ k + Len(exp) + 1 <= Len(log)
                /\ \A j \in DOMAIN exp :
                      /\ log[k + j].ev = exp[j].ev
                      /\ log[k + j].comp = i
                      /\ log[k + j].n = exp[j].n
                      /\ (log[k + j].ok /\ j > 1) => InPlace(log[k + j])
                /\ log[k + Len(exp) + 1].ev = "pull"
                /\ log[k + 1].ok
                /\ MarkerInPlace(i)

\* the batch failed at the second component; the first one's marker, copy
\* and link are in place
C6_Witness ==
    /\ InSyncAll /\ pc = "raised" /\ exc = "GitCommandError"
    /\ Len(Pulls) = 2 /\ Pulls[1].ok /\ ~Pulls[2].ok
    /\ MarkerInPlace(1)
    /\ InPlace(Event("copy", 1, 1, TRUE))
    /\ InPlace(Event("link", 1, 1, TRUE))

\* file f lies in the subtree at path
Within(f, path) == f = path \/ StartsWith(f, path \o <<"/">>)

\* the component pull_component was called for has uncommitted changes
SubtreeDirty ==
    \E c \in changes : Within(c.path, Manifest.projects[args.project].path)

\* C7: pull_component on a component whose subtree has uncommitted changes:
\* the call has raised, the only command run is git status (no subtree pull,
\* no marker write), and the exception is WorkspaceError whenever git status
\* answered.
C7_PullRefusesDirtySubtree ==
    (op = "pull_component" /\ pc # "body" /\ SubtreeDirty) =>
        /\ pc = "raised"
        /\ Len(log) = 1 /\ log[1].ev = "status"
        /\ log[1].ok => exc = "WorkspaceError"
        /\ clock = 1

\* the pull of the first component was refused
C7_Witness ==
    /\ op = "pull_component" /\ args.project = 1 /\ SubtreeDirty
    /\ pc = "raised" /\ exc = "WorkspaceError"

\* every marker write in the log comes right after a successful pull of the
\* same component
MarkerOnlyAfterPull ==
    \A k \in DOMAIN log :
        log[k].ev = "marker" =>
            /\ k > 1
            /\ log[k - 1] = Event("pull", log[k].comp, 0, TRUE)

\* a step in which the pull of component i fails leaves i's marker file as
\* it was
FailedPullKeepsMarker ==
    \A i \in Components :
        (\E k \in (Len(log) + 1)..Len(log') : log'[k] = Event("pull", i, 0, FALSE))
            => markers'[safe_name(Manifest.projects[i].path)]
                 = markers[safe_name(Manifest.projects[i].path)]

\* C8: a sync marker is written only after a successful pull: in
\* pull_component and in a sync batch, a failed subtree pull neither creates
\* nor changes the component's marker file.
C8_MarkerOnlyOnSuccess ==
    /\ []MarkerOnlyAfterPull
    /\ [][FailedPullKeepsMarker]_vars

\* pulls failed and the markers are as before: absent, or those of the
\* earlier sync
C8_Witness ==
    /\ \E k \in DOMAIN log : log[k] = Event("pull", 1, 0, FALSE)
    /\ \E k \in DOMAIN log : log[k] = Event("pull", 2, 0, TRUE)
    /\ markers[safe_name(Manifest.projects[1].path)]
          \in {NoMarker, OldMarker(Manifest.projects[1])}
    /\ MarkerInPlace(2)

IsDryRun == op = "push_single_component" /\ args.dry_run

\* the default branch git reports, and the branch the push resolves to
DetectedDefault == detect_default_branch(originHead)
ResolvedTarget ==
    determine_target_branch(BranchInfo(head, DetectedDefault), args.project)

\* what a dry run has done and returned so far
DryRunOutcome ==
    IsDryRun =>
        /\ \A k \in DOMAIN log : log[k].ev # "subtree_push"
        /\ remote = {}
        /\ (pc # "resolve" /\ head # Detached) =>
              /\ pc = "returned"
              /\ ret = PushResult(args.project.name, "UPDATED", ResolvedTarget)
        /\ pc = "returned" => ret.status = "SUCCESS"

\* no step of a dry run changes the working tree, the stash, the markers,
\* the projected files or the remote
DryRunFrame ==
    IsDryRun => UNCHANGED <<changes, stash, markers, projected, remote>>

\* C9: push_single_component with dry_run=true on a branch returns a success
\* result naming the resolved target branch, runs no git subtree push, and
\* changes neither the workspace nor the sync markers nor the remote.  (With
\* a detached HEAD it raises instead, still without a push.)
C9_DryRunHasNoEffect ==
    /\ []DryRunOutcome
    /\ [][DryRunFrame]_vars

\* a dry run on the default branch returned, in a workspace with uncommitted
\* changes and markers; the target is the manifest revision
C9_Witness ==
    /\ IsDryRun /\ pc = "returned"
    /\ head = Main /\ DetectedDefault = Main
    /\ ret.status = "SUCCESS" /\ ret.branch_name = Develop
    /\ changes # {}
    /\ \E f \in MarkerFiles : markers[f] # NoMarker

\* exactly 40 characters, each a hexadecimal digit
IsFortyHex(revision) ==
    /\ Len(revision) = ShaLen
    /\ \A i \in 1..Len(revision) : revision[i] \in HexDigits

\* C10: the branch a push names: off the default branch it is the current
\* branch whatever the manifest revision; on the default branch it is the
\* manifest revision unless that is a 40-hex commit SHA, and then the
\* detected default branch.
C10_TargetBranchResolution ==
    (op = "push_single_component" /\ pc = "returned") =>
        ret.branch_name =
            IF head # DetectedDefault THEN head
            ELSE IF ~IsFortyHex(args.project.revision)
                 THEN args.project.revision
                 ELSE DetectedDefault

\* C11: with a detached HEAD detect_current_branch fails with
\* DetachedHeadError, and push_single_component raises it before any push
\* is attempted, in a dry run as in a real push.
C11_DetachedHeadRaises ==
    /\ detect_current_branch(Detached).exc = "DetachedHeadError"
    /\ (op = "push_single_component" /\ head = Detached /\ pc # "resolve") =>
          /\ pc = "raised"
          /\ exc = "DetachedHeadError"
          /\ \A k \in DOMAIN log : log[k].ev # "subtree_push"
          /\ remote = {}

\* a dry run and a detached HEAD: the error has been raised
C11_Witness ==
    /\ op = "push_single_component" /\ head = Detached
    /\ args.dry_run
    /\ pc = "raised" /\ exc = "DetachedHeadError"

\* a git subtree push has run and exited with a non-zero status
PushFailed ==
    /\ op = "push_single_component"
    /\ \E k \in DOMAIN log : log[k].ev = "subtree_push"
    /\ ~proc.timeout
    /\ proc.code # 0

\* the phrases of the stderr text
SaysNonFastForward ==
    \/ Contains(Lower(proc.stderr), <<"n", "o", "n", "-", "f", "a", "s", "t", "-",
                                      "f", "o", "r", "w", "a", "r", "d">>)
    \/ Contains(proc.stderr, <<"[", "r", "e", "j", "e", "c", "t", "e", "d", "]">>)
SaysProtected ==
    \/ Contains(Lower(proc.stderr), <<"p", "r", "o", "t", "e", "c", "t", "e", "d", " ",
                                      "b", "r", "a", "n", "c", "h">>)
    \/ Contains(Lower(proc.stderr), <<"p", "e", "r", "m", "i", "s", "s", "i", "o", "n", " ",
                                      "d", "e", "n", "i", "e", "d">>)
SaysNotFound ==
    /\ Contains(Lower(proc.stderr), <<"r", "e", "p", "o", "s", "i", "t", "o", "r", "y">>)
    /\ Contains(Lower(proc.stderr), <<"n", "o", "t", " ", "f", "o", "u", "n", "d">>)

\* C12 as stated: a failed push whose error output contains
\* "non-fast-forward" or "[rejected]" raises NonFastForwardError.
C12_RejectedIsNonFastForward ==
    (PushFailed /\ SaysNonFastForward) =>
        pc = "raised" /\ exc = "NonFastForwardError"

\* C12: a failed push whose error output contains "non-fast-forward" (in
\* any letter case) or "[rejected]" raises NonFastForwardError, unless the
\* output also has the phrases of a protected branch or of a missing
\* repository, which are tested first.
C12_NonFastForwardAfterOthers ==
    (PushFailed /\ SaysNonFastForward /\ ~SaysProtected /\ ~SaysNotFound) =>
        pc = "raised" /\ exc = "NonFastForwardError"

\* a push rejected with "[rejected]" / with "Non-Fast-Forward"
C12_Witness ==
    /\ PushFailed
    /\ proc.stderr \in {ErrRejected, ErrNonFFUpper}
    /\ pc = "raised" /\ exc = "NonFastForwardError"

PushFailureKinds == {"NonFastForwardError", "BranchProtectionError",
                     "RepositoryNotFoundError", "PushError"}

\* C13: a push that exits non-zero raises one of NonFastForwardError,
\* BranchProtectionError, RepositoryNotFoundError and PushError and returns
\* nothing; every PushResult returned has status SUCCESS and no error
\* message.
C13_FailedPushAlwaysRaises ==
    /\ PushFailed =>
          /\ pc = "raised"
          /\ exc \in PushFailureKinds
          /\ ret = NoRet
    /\ (op = "push_single_component" /\ pc = "returned") =>
          /\ ret.status = "SUCCESS"
          /\ ret.error_message = "None"

\* a push failed with an unknown message: the generic PushError
C13_Witness ==
    /\ PushFailed
    /\ proc.stderr = ErrOther
    /\ pc = "raised" /\ exc = "PushError"

\* s has a ".." segment between its "/" separators
HasDotDotSegment(s) ==
    \E i \in 1..(Len(s) - 1) :
        /\ s[i] = "." /\ s[i + 1] = "."
        /\ i = 1 \/ s[i - 1] = "/"
        /\ i + 1 = Len(s) \/ s[i + 2] = "/"

\* a text the gate must refuse as it is written
UnsafeText(s) == HasDotDotSegment(s) \/ StartsWith(s, <<"/">>)

ExecuteOps == {"execute_copyfile_operations", "execute_linkfile_operations"}

\* the directives of the execute_* call in progress
CallDirectives ==
    IF op = "execute_copyfile_operations"
    THEN args.project.copyfiles ELSE args.project.linkfiles

\* nothing was done to the filesystem for destination dest
Untouched(dest) ==
    /\ \A c \in DOMAIN fscalls : fscalls[c].path # dest
    /\ \A f \in projected : f.dest # dest

\* the paths of the calls in progress that resolve as in `how` are refused
\* before anything is changed
RefusedUntouched(how) ==
    /\ (op = "validate_path_security" /\ pc # "body"
          /\ \/ UnsafeText(args.project.src)
             \/ UnsafeText(args.project.dest)
             \/ args.env \in how) =>
          /\ pc = "raised" /\ exc = "PathSecurityError"
          /\ fscalls = <<>> /\ projected = {}
    /\ (op \in ExecuteOps /\ pc # "body") =>
          \A k \in DOMAIN args.env :
              args.env[k] \in how => Untouched(CallDirectives[k].dest)

\* C14 as stated: a directive whose src or dest has a ".." segment, is
\* absolute, or resolves outside the workspace root is refused by
\* validate_path_security before any filesystem mutation for it.
C14_UnsafePathsRefused == RefusedUntouched({"escapes_root", "src_outside"})

\* C14: a directive whose src or dest has a ".." segment or is absolute, or
\* whose dest resolves outside the workspace root, is refused by
\* validate_path_security before any filesystem mutation for it (where the
\* src resolves is not looked at).
C14_EscapingDestRefused == RefusedUntouched({"escapes_root"})

\* two copy directives, the first with a destination outside the root: it
\* is recorded as failed and untouched, the second one was copied
C14_Witness ==
    /\ op = "execute_copyfile_operations" /\ pc = "returned"
    /\ Len(args.env) = 2
    /\ args.env[1] = "escapes_root" /\ args.env[2] = "ok"
    /\ ~ret.results[1].success /\ ret.results[2].success
    /\ Untouched(CallDirectives[1].dest)
    /\ ~Untouched(CallDirectives[2].dest)

\* the environments in which directive k succeeds
Succeeds(e) == e \in {"ok", "src_outside", "fallback_ok"}

\* C15: execute_copyfile_operations and execute_linkfile_operations attempt
\* every directive and return one result per directive, in directive order;
\* a directive that fails, for whatever reason, is a failed result and the
\* remaining directives are still attempted.
C15_OneResultPerDirective ==
    (op \in ExecuteOps /\ pc # "body") =>
        /\ pc = "returned"
        /\ Len(ret.results) = Len(CallDirectives)
        /\ \A k \in DOMAIN CallDirectives :
              /\ ret.results[k].src = CallDirectives[k].src
              /\ ret.results[k].dest = CallDirectives[k].dest
              /\ ret.results[k].success = Succeeds(args.env[k])
              /\ \E j \in DOMAIN log : log[j].n = k

\* the symlink primitive failed for directive k of the call
SymlinkFailed(k) == args.env[k] \in {"fallback_ok", "fallback_error"}

\* directive k ended as a successful copy of its source
CopiedByFallback(k) ==
    /\ pc = "returned"
    /\ ret.results[k].success
    /\ ret.results[k].fallback_used
    /\ [ dest |-> CallDirectives[k].dest, kind |-> "fallback",
         src |-> Join(args.project.path, CallDirectives[k].src) ] \in projected

\* C16 as stated: whenever the symlink primitive fails, the outcome is a
\* successful copy with fallback_used = true and the content of the source.
C16_FallbackAlwaysSucceeds ==
    (op = "execute_linkfile_operations" /\ pc # "body") =>
        \A k \in DOMAIN args.env : SymlinkFailed(k) => CopiedByFallback(k)

\* C16: whenever the symlink primitive fails and the fallback copy works,
\* the outcome is a successful result with fallback_used = true and the
\* destination holds a copy of the source; when the fallback copy fails as
\* well, the directive is a failed result without fallback_used.
C16_FallbackCopiesOrFails ==
    (op = "execute_linkfile_operations" /\ pc = "returned") =>
        \A k \in DOMAIN args.env :
            /\ args.env[k] = "fallback_ok" => CopiedByFallback(k)
            /\ args.env[k] = "fallback_error" =>
                  /\ ~ret.results[k].success
                  /\ ~ret.results[k].fallback_used
                  /\ \A f \in projected : f.dest # CallDirectives[k].dest

\* the link of the first directive became a copy, the second one's copy
\* failed too
C16_Witness ==
    /\ op = "execute_linkfile_operations" /\ pc = "returned"
    /\ Len(args.env) = 2
    /\ args.env[1] = "fallback_ok" /\ args.env[2] = "fallback_error"
    /\ CopiedByFallback(1)
    /\ ~ret.results[2].success

\* path f is the directory marker of the component path or of a directory
\* above it, as git status prints an untracked directory ("l/")
AncestorMarker(f, path) ==
    f # <<>> /\ f[Len(f)] = "/" /\ StartsWith(path \o <<"/">>, f)

\* the component path of a detect_component_state call was found on disk
FoundOnDisk(i) == \E k \in DOMAIN log : log[k] = Event("exists", i, 0, TRUE)

\* the state the listing calls for: UNINITIALIZED without the path, MODIFIED
\* for a change within the component or a directory marker above it
StateByListing(p, exists, chg) ==
    IF ~exists
    THEN SubtreeState(p, "uninitialized", FALSE)
    ELSE IF \E c \in chg : Within(c.path, p.path) \/ AncestorMarker(c.path, p.path)
    THEN SubtreeState(p, "modified", TRUE)
    ELSE SubtreeState(p, "up-to-date", FALSE)

\* C17: detect_component_state returns UNINITIALIZED exactly when the
\* component path does not exist; otherwise MODIFIED with has_local_changes
\* exactly when a listed path is within the component path or is an ancestor
\* directory of it; otherwise UP_TO_DATE without has_local_changes.
C17_StateFollowsListing ==
    (op = "detect_component_state" /\ pc = "returned") =>
        ret.state = StateByListing(args.project,
                                   FoundOnDisk(IndexOf(args.project)), changes)

\* the scan of get_all_component_status has ended
ScanEnded == op = "get_all_component_status" /\ pc \in {"returned", "raised"}

\* detection of component i failed during the scan: its path was there and
\* git status did not succeed
DetectionFailed(i) ==
    /\ FoundOnDisk(i)
    /\ \E k \in DOMAIN log : log[k] = Event("status", i, 0, FALSE)

\* the state component i has when it is detected on its own, in the listing
\* as it is
DetectedAlone(i) ==
    IF ~FoundOnDisk(i)
    THEN SubtreeState(Manifest.projects[i], "uninitialized", FALSE)
    ELSE IF has_changes(Manifest.projects[i].path, git_status("ok", changes))
    THEN SubtreeState(Manifest.projects[i], "modified", TRUE)
    ELSE SubtreeState(Manifest.projects[i], "up-to-date", FALSE)

\* one state per manifest component, in manifest order; ERROR for exactly the
\* components whose detection failed, every other state as detected alone
OneStatePerComponent(states) ==
    /\ DOMAIN states = Components
    /\ \A i \in Components :
          /\ states[i].project = Manifest.projects[i]
          /\ IF DetectionFailed(i)
             THEN /\ states[i].status = "error"
                  /\ ~states[i].has_local_changes
             ELSE states[i] = DetectedAlone(i)

SummaryReported ==
    /\ op = "status_command" /\ pc = "exited"
    /\ args.component = <<>>
    /\ "summary" \in DOMAIN ret
    /\ ret.summary # <<>>

\* the per-status counts of a summary block, added up
BucketSum(summary) ==
    summary.up_to_date + summary.ahead + summary.behind + summary.diverged
        + summary.modified + summary.uninitialized

\* C19: the per-status counts reported by the all-components status query
\* sum to the reported total component count: every component is counted in
\* exactly one status bucket, none twice and none omitted.
C19_CountsSumToTotal ==
    SummaryReported =>
        /\ ret.summary.total = MaxComponents
        /\ BucketSum(ret.summary) = ret.summary.total

\* parse_manifest has ended on a document that could be read and whose
\* <project> elements all have a remote, their own or the default
ParsedReadable ==
    /\ op = "parse_manifest" /\ pc \in {"returned", "raised"}
    /\ args.env = "ok"
    /\ \A k \in DOMAIN args.doc.projects : ElemRemote(args.doc, k) # ""

\* the independent semantic violations of a document: an empty collection,
\* each project whose remote is not among the remotes defined (when any
\* is), each path listed more than once, each absolute path, each path with
\* a ".." part
SemanticViolations(doc) ==
    (IF doc.remotes = {} THEN {Violation("no_remotes", {})} ELSE {})
    \cup (IF doc.projects = <<>> THEN {Violation("no_projects", {})} ELSE {})
    \cup { Violation("dangling_remote", {ElemName(k)}) :
             k \in { k \in DOMAIN doc.projects :
                        doc.remotes # {} /\ ElemRemote(doc, k) \notin doc.remotes } }
    \cup { Violation("duplicate_path", {q}) : q \in Duplicates(doc.projects) }
    \cup { Violation("absolute_path", {doc.projects[k].path}) :
             k \in { k \in DOMAIN doc.projects : Head(doc.projects[k].path) = "/" } }
    \cup { Violation("dotdot_path", {doc.projects[k].path}) :
             k \in { k \in DOMAIN doc.projects : HasDotDotPart(doc.projects[k].path) } }

\* the message of the exception raised names violation v
Enumerated(v) ==
    \E j \in DOMAIN detail :
        detail[j].rule = v.rule /\ v.subject \subseteq detail[j].subject

\* C20: a manifest with k independent semantic violations (duplicate paths,
\* dangling remote references, absolute or ".." paths, empty collections)
\* fails parsing with a single validation error whose detail enumerates all
\* k violations, not only the first one found.
C20_AllViolationsEnumerated ==
    (ParsedReadable /\ SemanticViolations(args.doc) # {}) =>
        /\ pc = "raised"
        /\ exc = "ManifestValidationError"
        /\ \A v \in SemanticViolations(args.doc) : Enumerated(v)

\* C22: is_commit_sha returns true if and only if its input is exactly 40
\* characters long and every character is a hexadecimal digit; every other
\* input returns false.
C22_IsCommitShaExact ==
    (op = "push_single_component" /\ pc # "resolve") =>
        (is_commit_sha(args.project.revision)
            <=> IsFortyHex(args.project.revision))

\* C23: a timeout of an external command, the subtree push of
\* execute_git_push included, is reported as a Git operation failure whose
\* reason is distinct from a non-zero exit, and never escapes as an
\* unclassified exception.
C23_TimeoutIsGitFailure ==
    /\ \A check \in BOOLEAN :
          /\ IsInstance(run_git_command("timeout", check).exc, "GitOperationError")
          /\ run_git_command("timeout", check).exit_code
                # run_git_command("fail", TRUE).exit_code
    /\ (op = "push_single_component" /\ proc.timeout) =>
          /\ pc = "raised"
          /\ IsInstance(exc, "GitOperationError")
          /\ exc \notin PushFailureKinds

\* the BranchInfo a push works with, once the branches are detected
PushBranchInfo == create_branch_info(head, originHead).info

\* C25: no BranchInfo with is_default_branch set and a current branch other
\* than the default branch exists: constructing one fails with an error
\* and is not corrected; create_branch_info sets is_default_branch to
\* (current = default) and target_branch to the default branch when
\* is_default_branch, else to the current branch.
C25_BranchInfoConsistent ==
    /\ (op = "BranchInfo" /\ pc = "returned") =>
          /\ ret.info = args.project
          /\ ret.info.is_default_branch =>
                ret.info.current_branch = ret.info.default_branch
    /\ (/\ op = "BranchInfo"
        /\ args.project.is_default_branch
        /\ args.project.current_branch # args.project.default_branch) =>
          pc = "raised" /\ exc = "ValueError" /\ ret = NoRet
    /\ (op = "push_single_component" /\ pc \in {"push", "returned"}) =>
          /\ PushBranchInfo.current_branch = head
          /\ PushBranchInfo.default_branch = DetectedDefault
          /\ PushBranchInfo.is_default_branch = (head = DetectedDefault)
          /\ PushBranchInfo.target_branch =
                IF PushBranchInfo.is_default_branch
                THEN DetectedDefault ELSE head

\* a BranchInfo marked default with current branch develop and default
\* branch main is refused
C25_Witness ==
    /\ op = "BranchInfo" /\ pc = "raised" /\ exc = "ValueError"
    /\ args.project = [current_branch |-> Develop, is_default_branch |-> TRUE,
                       default_branch |-> Main, target_branch |-> Main]

\* the persisted marker of component i, written by a successful sync
PersistedMarker(i) == markers[safe_name(Manifest.projects[i].path)]

\* C26: the state a status query returns for a component carries the
\* last-sync fields loaded from the component's persisted marker file: after
\* a successful sync, a later status query reports that sync's time as
\* last_sync_time.
C26_StatusCarriesLastSync ==
    /\ (op = "detect_component_state" /\ pc = "returned"
            /\ PersistedMarker(IndexOf(args.project)) # NoMarker) =>
          ret.state.last_sync_time
              = PersistedMarker(IndexOf(args.project)).last_sync_time
    /\ (op = "get_all_component_status" /\ pc = "returned") =>
          \A i \in Components :
              (PersistedMarker(i) # NoMarker /\ ~DetectionFailed(i)) =>
                  ret.states[i].last_sync_time = PersistedMarker(i).last_sync_time

\* C30: pull_component is blocked only by changes inside its own subtree:
\* when every uncommitted change lies outside the component's path (even in
\* a path that contains the component's path as a substring) and git status
\* answers, it does not raise WorkspaceError and goes on to the subtree pull.
C30_BlockedOnlyByOwnSubtree ==
    (/\ op = "pull_component" /\ pc # "body"
     /\ ~SubtreeDirty
     /\ log[1] = Event("status", 0, 0, TRUE)) =>
        /\ exc # "WorkspaceError"
        /\ Len(log) >= 2 /\ log[2].ev = "pull"

\* the src / dest pairs of the child elements with a tag, in document order
Declared(elem, tag) ==
    [ j \in DOMAIN SelectSeq(elem.children, LAMBDA c : c.tag = tag) |->
        [ src  |-> SelectSeq(elem.children, LAMBDA c : c.tag = tag)[j].src,
          dest |-> SelectSeq(elem.children, LAMBDA c : c.tag = tag)[j].dest ] ]

\* C21: parse_manifest attaches to each component every copyfile and
\* linkfile child element declared for it in the manifest, with src and dest
\* preserved and in document order.
C21_DirectivesAttached ==
    (op = "parse_manifest" /\ pc = "returned") =>
        \A k \in DOMAIN args.doc.projects :
            /\ ret.manifest.projects[k].copyfiles
                  = Declared(args.doc.projects[k], "copyfile")
            /\ ret.manifest.projects[k].linkfiles
                  = Declared(args.doc.projects[k], "linkfile")

\* C28: each sync-marker file is owned by exactly one component: two
\* distinct component paths of a valid manifest never map to the same
\* marker file.
C28_MarkerOwnedByOneComponent ==
    (op = "parse_manifest" /\ pc = "returned") =>
        \A j, k \in DOMAIN ret.manifest.projects :
            ret.manifest.projects[j].path # ret.manifest.projects[k].path =>
                safe_name(ret.manifest.projects[j].path)
                    # safe_name(ret.manifest.projects[k].path)

----------------------------------------------------------------------------
(* C29 *)

\* the link directives of the call were executed a second time after a first
\* execution in which every directive succeeded
LinkedTwice ==
    /\ op = "execute_linkfile_operations"
    /\ pc = "returned_again"
    /\ \A k \in DOMAIN fileres : fileres[k].success

\* C29: executing a component's link directives a second time, with the
\* links or fallback copies of a first successful execution still in place,
\* again reports success for every directive and leaves a link or a copy of
\* the source at every destination
C29_LinksRepeatable ==
    LinkedTwice =>
        /\ Len(ret.results) = Len(args.project.linkfiles)
        /\ \A k \in DOMAIN ret.results : ret.results[k].success
        /\ \A k \in DOMAIN args.project.linkfiles :
              \E f \in projected :
                 /\ f.dest = args.project.linkfiles[k].dest
                 /\ f.src = Join(args.project.path,
                                 args.project.linkfiles[k].src)

\* a symlink made by the first execution is in place, symlinks are still
\* supported, and the second execution reports the directive as failed
C29_SecondRunFails ==
    /\ LinkedTwice
    /\ \E k \in DOMAIN ret.results :
          /\ args.env[k] = "ok"
          /\ ~fileres[k].fallback_used
          /\ ~ret.results[k].success
          /\ \E f \in projected :
                f.dest = ret.results[k].dest /\ f.kind = "symlink"

\* a fallback copy of a file is in place and the second execution copies
\* the file over it and reports success
C29_FallbackFileRepeats ==
    /\ LinkedTwice
    /\ Len(ret.results) > 0
    /\ \A k \in DOMAIN ret.results :
          fileres[k].fallback_used /\ ret.results[k].success

----------------------------------------------------------------------------
(* C24 *)

\* C24: a command given a component that is not in the manifest exits with
\* code 1, the user/input-error code, and runs no git operation for it
C24_UnknownComponentExitsOne ==
    (op = "push_command" /\ pc = "exited" /\ find_component(args.env) = 0)
        => (ret.code = 1 /\ log = <<>>)

\* push_command has exited with code 3 without a git operation
C24_PushExitsThree ==
    /\ op = "push_command" /\ pc = "exited"
    /\ find_component(args.env) = 0
    /\ ret.code = 3
    /\ log = <<>>

----------------------------------------------------------------------------
(* C27 *)

\* the content _save_subtree_state writes for the project of the call
NewMarker ==
    [ project_name   |-> args.project.name,
      project_path   |-> args.project.path,
      last_sync_time |-> clock,
      status         |-> "up-to-date" ]

\* C27: at every point of a marker save, a crash between two of its steps
\* included, the marker file at its final path is absent, holds the
\* complete previous content, or holds the complete new content; it is
\* never partially written, and no other marker file changes
C27_MarkerNeverPartial ==
    op = "_save_subtree_state" =>
        \A f \in MarkerFiles :
            /\ markers[f] # PartialMarker
            /\ \/ markers[f] = NoMarker
               \/ markers[f] = OldMarker(CHOOSE p \in Range(Manifest.projects) :
                                            safe_name(p.path) = f)
               \/ f = safe_name(args.project.path) /\ markers[f] = NewMarker
            /\ pc # "returned" => markers[f] # NewMarker
            /\ (pc = "returned" /\ f = safe_name(args.project.path))
                  => markers[f] = NewMarker

\* the save was killed while the temporary file was half written, and the
\* marker of the earlier sync is still whole at the final path
C27_Witness ==
    /\ op = "_save_subtree_state"
    /\ pc = "crashed"
    /\ temps[safe_name(args.project.path)] = PartialMarker
    /\ markers[safe_name(args.project.path)] = OldMarker(args.project)

====
